---- MODULE Spec2Model ----
(***************************************************************************)
(* Model of the mutation engine of the Wallos MCP bridge (WallosClient):   *)
(* lazy session login, API-key issuance, find-or-create resolution of      *)
(* currency / category / payment method / payer, the subscription create   *)
(* and edit requests, the tool handlers' envelope checks and the           *)
(* next-payment date computation.                                          *)
(*                                                                         *)
(* Every network round trip is two steps: the synchronous code up to the   *)
(* await sends the request (the call then waits with pc = "login",         *)
(* "keygen" or "await"), and Respond delivers the backend's answer and     *)
(* runs the synchronous code up to the next await.                         *)
(*                                                                         *)
(* Conventions: a numeric id of 0 and a string "" stand for JavaScript's   *)
(* undefined (both are falsy, as the code's `if (x)` tests read them);     *)
(* `now` is in milliseconds since the client was constructed.              *)
(***************************************************************************)
EXTENDS Integers, Sequences, FiniteSets, TLC

VARIABLES
    now,          \* Date.now(), ms since construction
    credentials,  \* TRUE iff username and password are configured
    apiKey,       \* WallosClient.apiKey: 0 = undefined, else the key's number
    session,      \* WallosClient.session
    backend,      \* the remote Wallos instance
    calls,        \* one record per call slot: the running call's position and locals
    loginLog,     \* history: one entry per login exchange
    faults,       \* backend faults injected so far
    started,      \* calls started so far
    sched,        \* state of the next-payment date computation (DateScheduler)
    config,       \* the WallosClientConfig given to the constructor, and how it ended
    master        \* the getMasterData call and its four parallel reads

vars == <<now, credentials, apiKey, session, backend, calls, loginLog, faults,
          started, sched, config, master>>

engineVars == <<now, credentials, apiKey, session, backend, calls, loginLog,
                faults, started, config, master>>

(***************************************************************************)
(* Bounds of the model                                                     *)
(***************************************************************************)
MaxCalls == 2
MaxFaults == 1
Procs == {1, 2}

(***************************************************************************)
(* Program constants                                                       *)
(***************************************************************************)
SESSION_TTL == 3600000
DEFAULT_CATEGORY_ID == 1
FALLBACK_CURRENCY_ID == 1

NoSession == [set |-> FALSE, cookie |-> 0, expiresAt |-> 0]

(***************************************************************************)
(* String conversions used by the name lookups                             *)
(***************************************************************************)
ToLowerCase(s) ==
    CASE s = "General" -> "general"
      [] s = "Food" -> "food"
      [] s = "FOOD" -> "food"
      [] s = "Books" -> "books"
      [] s = "PayPal" -> "paypal"
      [] s = "PAYPAL" -> "paypal"
      [] s = "Cash" -> "cash"
      [] s = "Alice" -> "alice"
      [] s = "ALICE" -> "alice"
      [] s = "Bob" -> "bob"
      [] s = "Monthly" -> "monthly"
      [] s = "WEEKLY" -> "weekly"
      [] s = "2 Weeks" -> "2 weeks"
      [] s = "DAILY" -> "daily"
      [] s = " Daily " -> " daily "
      [] s = "D" -> "d"
      [] s = " D " -> " d "
      [] s = "DAY" -> "day"
      [] s = " Day " -> " day "
      [] s = " Weekly " -> " weekly "
      [] s = "W" -> "w"
      [] s = " W " -> " w "
      [] s = "WEEK" -> "week"
      [] s = " Week " -> " week "
      [] s = "BIWEEKLY" -> "biweekly"
      [] s = " Biweekly " -> " biweekly "
      [] s = "BI-WEEKLY" -> "bi-weekly"
      [] s = " Bi-weekly " -> " bi-weekly "
      [] s = "FORTNIGHTLY" -> "fortnightly"
      [] s = " Fortnightly " -> " fortnightly "
      [] s = "MONTHLY" -> "monthly"
      [] s = " Monthly " -> " monthly "
      [] s = "M" -> "m"
      [] s = " M " -> " m "
      [] s = "MONTH" -> "month"
      [] s = " Month " -> " month "
      [] s = "QUARTERLY" -> "quarterly"
      [] s = " Quarterly " -> " quarterly "
      [] s = "Q" -> "q"
      [] s = " Q " -> " q "
      [] s = "QUARTER" -> "quarter"
      [] s = " Quarter " -> " quarter "
      [] s = "SEMIANNUALLY" -> "semiannually"
      [] s = " Semiannually " -> " semiannually "
      [] s = "SEMI-ANNUALLY" -> "semi-annually"
      [] s = " Semi-annually " -> " semi-annually "
      [] s = "HALFYEARLY" -> "halfyearly"
      [] s = " Halfyearly " -> " halfyearly "
      [] s = "HALF-YEARLY" -> "half-yearly"
      [] s = " Half-yearly " -> " half-yearly "
      [] s = "ANNUALLY" -> "annually"
      [] s = " Annually " -> " annually "
      [] s = "YEARLY" -> "yearly"
      [] s = " Yearly " -> " yearly "
      [] s = "Y" -> "y"
      [] s = " Y " -> " y "
      [] s = "YEAR" -> "year"
      [] s = " Year " -> " year "
      [] s = "Constructor" -> "constructor"
      [] s = "3 MONTHS" -> "3 months"
      [] OTHER -> s

ToUpperCase(s) ==
    CASE s = "usd" -> "USD"
      [] s = "Eur" -> "EUR"
      [] s = "xyz" -> "XYZ"
      [] OTHER     -> s

\* Array.prototype.find: of the indices whose element satisfies the test, the
\* first (0 = none)
FirstIndex(hits) ==
    IF hits = {} THEN 0 ELSE CHOOSE i \in hits : \A j \in hits : i <= j

\* findCategoryByName / findPaymentMethodByName / findHouseholdMemberByName
\* on a successful list response: the id of the first case-insensitive match
FindByName(list, name) ==
    LET i == FirstIndex({k \in 1..Len(list) :
                            ToLowerCase(list[k].name) = ToLowerCase(name)})
    IN  IF i = 0 THEN 0 ELSE list[i].id

\* findCurrencyByCode on a successful list response
FindByCode(list, code) ==
    LET i == FirstIndex({k \in 1..Len(list) :
                            ToUpperCase(list[k].name) = ToUpperCase(code)})
    IN  IF i = 0 THEN 0 ELSE list[i].id

(***************************************************************************)
(* The backend                                                             *)
(***************************************************************************)
InitBackend ==
    [categories      |-> <<[id |-> 1, name |-> "General"], [id |-> 2, name |-> "Food"]>>,
     payment_methods |-> <<[id |-> 1, name |-> "Cash"], [id |-> 2, name |-> "PayPal"]>>,
     currencies      |-> <<[id |-> 1, name |-> "EUR"], [id |-> 2, name |-> "USD"]>>,
     household       |-> <<[id |-> 1, name |-> "Alice"], [id |-> 2, name |-> "Bob"]>>,
     subscriptions   |-> <<[id |-> 3, name |-> "X"], [id |-> 5, name |-> "Old"]>>,
     main_currency   |-> 2,
     keys            |-> 0]

\* the id the backend gives the next entity of a list
NewId(list) ==
    IF Len(list) = 0 THEN 1
    ELSE 1 + (CHOOSE m \in {list[i].id : i \in 1..Len(list)} :
                 \A i \in 1..Len(list) : list[i].id <= m)

Ids(list) == {list[i].id : i \in 1..Len(list)}

(***************************************************************************)
(* Responses.  kind: "ok" (success, carrying the id it announces),          *)
(* "ok_noid" (success without an id field), "fail" (success:false with an   *)
(* errorMessage), "neterr" (axios rejects: transport failure or timeout),   *)
(* "env" (the answer to a subscription add/edit POST: status is "" when the *)
(* key is absent, success is "absent", "true" or "false").                  *)
(***************************************************************************)
Resp(k) == [kind |-> k, status |-> "", success |-> "absent"]
Envelope(st, su) == [kind |-> "env", status |-> st, success |-> su]
NoResp == Resp("none")

Envelopes == {Envelope(st, su) : st \in {"", "Success", "Error"},
                                 su \in {"absent", "true", "false"}}
\* the two envelope shapes of an accepting backend
CleanEnvelopes == {Envelope("Success", "absent"), Envelope("", "true")}
\* the envelopes of the two conventions, accepting and rejecting
PureEnvelopes == CleanEnvelopes \cup {Envelope("Error", "absent"), Envelope("", "false")}

\* what the backend did with a subscription write it answered with envelope e
Accepted(e) == e.status = "Success" \/ e.success = "true"

(***************************************************************************)
(* Calls                                                                   *)
(***************************************************************************)
PlainFields == {"name", "price", "billing_period", "billing_frequency", "start_date",
                "next_payment", "notes", "url", "notify",
                "notify_days_before"}

EmptyData ==
    [currency_id |-> 0, currency_code |-> "", category_name |-> "", category_id |-> 0,
     payment_method_name |-> "", payment_method_id |-> 0,
     payer_user_name |-> "", payer_user_id |-> 0, plain |-> {},
     auto_renew |-> "undefined"]

NoLocals == [currencyId |-> 0, categoryId |-> 0, paymentMethodId |-> 0, payerUserId |-> 0]

NoPayload ==
    [keys |-> {}, currency_id |-> 0, category_id |-> 0, payment_method_id |-> 0,
     payer_user_id |-> 0, start_date |-> "", next_payment |-> "", auto_renew |-> ""]

IdleCall ==
    [op |-> "none", id |-> 0, d |-> EmptyData, pc |-> "idle", req |-> "", loc |-> NoLocals,
     payload |-> NoPayload, sent |-> <<>>, chk |-> 0, outcome |-> "none", err |-> "",
     resp |-> NoResp, subscription |-> 0, rejected |-> {}, created |-> {},
     reported |-> 0, tool |-> ""]

NewCall(op, id, d) == [IdleCall EXCEPT !.op = op, !.id = id, !.d = d, !.pc = "run"]

Running(c) == c.pc \in {"login", "keygen", "await"}

\* throw new Error(msg)
\* a client that takes back what the mutation created before it throws
FailRollingBack(c, msg) ==
    IF "add_category" \in c.created
    THEN [c EXCEPT !.pc = "await", !.req = "delete_category", !.err = msg,
                   !.sent = Append(@, "delete_category")]
    ELSE [c EXCEPT !.pc = "done", !.outcome = "thrown", !.err = msg]

Fail(c, msg) == [c EXCEPT !.pc = "done", !.outcome = "thrown", !.err = msg]

\* a client that raises an error when it has no record to attach
ReturnLocated(c, sub) ==
    IF sub = 0 THEN Fail(c, "UnknownEntityError")
    ELSE [c EXCEPT !.pc = "done", !.outcome = "returned", !.subscription = sub]

\* return response.data, or { ...response.data, subscription }
Return(c, sub) == [c EXCEPT !.pc = "done", !.outcome = "returned", !.subscription = sub]

(***************************************************************************)
(* Requests.  A request label names the call site; Endpoint is the URL it  *)
(* goes to.                                                                *)
(***************************************************************************)
Endpoint(r) ==
    CASE r \in {"find_currency", "main_currency"}      -> "get_currencies"
      [] r = "find_category"                           -> "get_categories"
      [] r = "find_payment_method"                     -> "get_payment_methods"
      [] r \in {"find_member", "first_member"}         -> "get_household"
      [] r = "refetch"                                 -> "get_subscriptions"
      [] OTHER                                         -> r

\* which guard runs before the request leaves: ensureSession (the entity
\* writes call it first), ensureApiKey (the request interceptor, for /api/
\* URLs), or none (the subscription POSTs)
ReqKind(r) ==
    CASE r \in {"add_currency", "add_category", "add_payment_method",
                "edit_category", "delete_category"}                    -> "session"
      [] r \in {"find_currency", "main_currency", "find_category",
                "find_payment_method", "find_member", "first_member",
                "refetch", "get_categories", "get_subscriptions",
                "get_currencies", "get_payment_methods", "get_household"} -> "api"
      [] OTHER                                                         -> "plain"

Send(c, r) == [c EXCEPT !.pc = "await", !.req = r, !.sent = Append(@, Endpoint(r))]

SendLogin(c, r) == [c EXCEPT !.pc = "login", !.req = r, !.sent = Append(@, "login")]

SendKeygen(c, r) == [c EXCEPT !.pc = "keygen", !.req = r, !.sent = Append(@, "keygen")]

(***************************************************************************)
(* Authenticator                                                           *)
(***************************************************************************)
\* a session that still counts at the instant it expires
SessionValidInclusive(s) == s.set /\ now <= s.expiresAt

\* the negation of ensureSession's test `!this.session || new Date() >= expiresAt`
SessionValid(s) == s.set /\ now < s.expiresAt

\* a client that authenticates before every write
NeedsLoginAlways(s) == TRUE

\* a client that lets one login be in flight at a time (single flight)
NeedsLoginSingleFlight(s) ==
    ~SessionValid(s) /\ \A q \in Procs : calls[q].pc # "login"

\* ensureSession's test: authenticate when the session is absent or expired
NeedsLogin(s) == ~SessionValid(s)

\* c.chk counts the evaluations of ensureSession by this call that saw no valid session
Observe(c, s) == IF SessionValid(s) THEN c ELSE [c EXCEPT !.chk = @ + 1]

\* await this.ensureSession(); then send r
EnsureSessionThen(c, r, E) ==
    IF ~credentials THEN Fail(c, "ConfigurationError")
    ELSE IF NeedsLogin(E.session) THEN SendLogin(Observe(c, E.session), r)
    ELSE Send(Observe(c, E.session), r)

\* an ensureApiKey that generates a key whether or not one is stored
EnsureApiKeyAlways(c, r, E) ==
    IF ~credentials THEN Fail(c, "ConfigurationError")
    ELSE IF NeedsLogin(E.session) THEN SendLogin(Observe(c, E.session), r)
    ELSE SendKeygen(Observe(c, E.session), r)

\* the request interceptor on an /api/ URL: await this.ensureApiKey(); then send r
EnsureApiKeyThen(c, r, E) ==
    IF E.apiKey # 0 THEN Send(c, r)
    ELSE IF ~credentials THEN Fail(c, "ConfigurationError")
    ELSE IF NeedsLogin(E.session) THEN SendLogin(Observe(c, E.session), r)
    ELSE SendKeygen(Observe(c, E.session), r)

Issue(c, r, E) ==
    CASE ReqKind(r) = "session" -> EnsureSessionThen(c, r, E)
      [] ReqKind(r) = "api"     -> EnsureApiKeyThen(c, r, E)
      [] OTHER                  -> Send(c, r)

(***************************************************************************)
(* MutationSubmitter: the outgoing form data                               *)
(***************************************************************************)
Has(c, f) == f \in c.d.plain

\* a client that sends every subscription as auto-renewing
AutoRenewAlways(flag) == "true"

\* data.auto_renew !== undefined ? data.auto_renew : true
AutoRenewOrDefault(flag) == IF flag # "undefined" THEN flag ELSE "true"

\* autoRenew ? '1' : '0'
Encode(flag) == IF flag = "true" THEN "1" ELSE "0"

IfSent(cond, key) == IF cond THEN {key} ELSE {}

\* createSubscription: the date block, then the URLSearchParams it appends.
\* Dates are kept as tokens here; the computation itself is the DateScheduler below.
CreatePayload(c) ==
    [keys |-> {"name", "price", "currency_id", "cycle", "frequency", "start_date",
               "next_payment", "auto_renew"}
              \cup IfSent(c.loc.categoryId # 0, "category_id")
              \cup IfSent(c.loc.paymentMethodId # 0, "payment_method_id")
              \cup IfSent(c.loc.payerUserId # 0, "payer_user_id")
              \cup IfSent(Has(c, "notes"), "notes")
              \cup IfSent(Has(c, "url"), "url")
              \cup IfSent(Has(c, "notify"), "notifications")
              \cup IfSent(Has(c, "notify_days_before"), "notify_days_before"),
     currency_id       |-> c.loc.currencyId,
     category_id       |-> c.loc.categoryId,
     payment_method_id |-> c.loc.paymentMethodId,
     payer_user_id     |-> c.loc.payerUserId,
     start_date        |-> IF Has(c, "start_date") THEN "start_date"
                           ELSE IF Has(c, "next_payment") THEN "next_payment"
                           ELSE "today",
     next_payment      |-> IF Has(c, "next_payment") THEN "next_payment"
                           ELSE IF Has(c, "start_date") THEN "computed"
                           ELSE "today",
     auto_renew        |-> Encode(AutoRenewOrDefault(c.d.auto_renew))]

\* editSubscription: only what the input supplied
EditPayload(c) ==
    [keys |-> {"id"}
              \cup IfSent(Has(c, "name"), "name")
              \cup IfSent(Has(c, "price"), "price")
              \cup IfSent(c.loc.currencyId # 0, "currency_id")
              \cup (IF Has(c, "billing_period") \/ Has(c, "billing_frequency")
                    THEN {"cycle", "frequency"} ELSE {})
              \cup IfSent(c.loc.categoryId # 0, "category_id")
              \cup IfSent(c.loc.paymentMethodId # 0, "payment_method_id")
              \cup IfSent(c.loc.payerUserId # 0, "payer_user_id")
              \cup IfSent(Has(c, "start_date"), "start_date")
              \cup IfSent(Has(c, "next_payment"), "next_payment")
              \cup IfSent(c.d.auto_renew # "undefined", "auto_renew")
              \cup IfSent(Has(c, "notes"), "notes")
              \cup IfSent(Has(c, "url"), "url")
              \cup IfSent(Has(c, "notify"), "notify")
              \cup IfSent(Has(c, "notify_days_before"), "notify_days_before"),
     currency_id       |-> c.loc.currencyId,
     category_id       |-> c.loc.categoryId,
     payment_method_id |-> c.loc.paymentMethodId,
     payer_user_id     |-> c.loc.payerUserId,
     start_date        |-> IF Has(c, "start_date") THEN "start_date" ELSE "",
     next_payment      |-> IF Has(c, "next_payment") THEN "next_payment" ELSE "",
     auto_renew        |-> IF c.d.auto_renew # "undefined"
                           THEN Encode(c.d.auto_renew) ELSE ""]

(***************************************************************************)
(* EntityResolver and MutationSubmitter: the synchronous code of           *)
(* createSubscription / editSubscription from a stage up to the next await *)
(***************************************************************************)
\* a resolver that consults the list whether or not a name was supplied
GivenAlways(name) == TRUE

\* `if (data.category_name)`: a name or code was supplied
Given(name) == name # ""

RECURSIVE AdvCreate(_, _, _)
AdvCreate(c, stage, E) ==
    LET d == c.d IN
    CASE stage = "cur" ->
            IF d.currency_id # 0
            THEN AdvCreate([c EXCEPT !.loc.currencyId = d.currency_id], "cat", E)
            ELSE IF Given(d.currency_code) THEN Issue(c, "find_currency", E)
            ELSE Issue(c, "main_currency", E)
      [] stage = "cat" ->
            IF Given(d.category_name) THEN Issue(c, "find_category", E)
            ELSE IF d.category_id # 0
            THEN AdvCreate([c EXCEPT !.loc.categoryId = d.category_id], "pm", E)
            ELSE AdvCreate(c, "pm", E)
      [] stage = "pm" ->
            LET c1 == [c EXCEPT !.loc.paymentMethodId = d.payment_method_id] IN
            IF d.payment_method_id = 0 /\ Given(d.payment_method_name)
            THEN Issue(c1, "find_payment_method", E)
            ELSE AdvCreate(c1, "payer", E)
      [] stage = "payer" ->
            IF Given(d.payer_user_name) THEN Issue(c, "find_member", E)
            ELSE IF d.payer_user_id # 0
            THEN AdvCreate([c EXCEPT !.loc.payerUserId = d.payer_user_id], "build", E)
            ELSE Issue(c, "first_member", E)
      [] OTHER ->
            IF c.loc.currencyId = 0
            THEN Fail(c, "Currency ID could not be determined")
            ELSE Send([c EXCEPT !.payload = CreatePayload(c)], "add_subscription")

RECURSIVE AdvEdit(_, _, _)
AdvEdit(c, stage, E) ==
    LET d == c.d IN
    CASE stage = "cur" ->
            IF Given(d.currency_code) THEN Issue(c, "find_currency", E)
            ELSE IF d.currency_id # 0
            THEN AdvEdit([c EXCEPT !.loc.currencyId = d.currency_id], "cat", E)
            ELSE AdvEdit(c, "cat", E)
      [] stage = "cat" ->
            IF Given(d.category_name) THEN Issue(c, "find_category", E)
            ELSE IF d.category_id # 0
            THEN AdvEdit([c EXCEPT !.loc.categoryId = d.category_id], "pm", E)
            ELSE AdvEdit(c, "pm", E)
      [] stage = "pm" ->
            IF Given(d.payment_method_name) THEN Issue(c, "find_payment_method", E)
            ELSE IF d.payment_method_id # 0
            THEN AdvEdit([c EXCEPT !.loc.paymentMethodId = d.payment_method_id], "payer", E)
            ELSE AdvEdit(c, "payer", E)
      [] stage = "payer" ->
            IF Given(d.payer_user_name) THEN Issue(c, "find_member", E)
            ELSE IF d.payer_user_id # 0
            THEN AdvEdit([c EXCEPT !.loc.payerUserId = d.payer_user_id], "build", E)
            ELSE AdvEdit(c, "build", E)
      [] OTHER ->
            Send([c EXCEPT !.payload = EditPayload(c)], "edit_subscription")

\* a resolver that starts over with the currency once the category is settled
AdvStartingOver(c, stage, E) ==
    LET st == IF stage = "pm" /\ c.loc.payerUserId = 0 /\ Len(c.sent) < 6
              THEN "cur" ELSE stage
    IN  IF c.op = "createSubscription" THEN AdvCreate(c, st, E) ELSE AdvEdit(c, st, E)

Adv(c, stage, E) ==
    IF c.op = "createSubscription" THEN AdvCreate(c, stage, E) ELSE AdvEdit(c, stage, E)

\* the code after `await this.ensureSession()` returns from a login
AfterLogin(c, E) ==
    IF c.req = "start" THEN Adv(c, "cur", E)
    ELSE IF ReqKind(c.req) = "api" THEN SendKeygen(c, c.req)
    ELSE Send(c, c.req)

\* a client that ignores the reported main currency
AlwaysFallback(main) == FALLBACK_CURRENCY_ID

\* currenciesRes.main_currency || 1
MainOrFallback(main) == IF main # 0 THEN main ELSE FALLBACK_CURRENCY_ID

\* a fallback that takes the member listed last
LastMember(household) == household[Len(household)].id

\* householdResponse.household[0].id: the "main user"
FirstMember(household) == household[1].id

SUBSCRIPTION_NAME == "X"

IsCreate(c) == c.op = "createSubscription"

\* the code that runs when the awaited request c.req is answered by resp;
\* B is the backend when it answered (for the lists it returned), newId the
\* id of an entity it created
OnResponse(c, resp, B, newId, E) ==
    LET d == c.d
        ok == resp.kind = "ok"
    IN
    IF resp.kind = "neterr" THEN Fail(c, "NetworkError")
    ELSE IF c.op \in {"addCategory", "updateCategory", "deleteCategory",
                      "getCategories", "getSubscriptions", "getCurrencies",
                      "getPaymentMethods", "getHousehold"}
    THEN Return([c EXCEPT !.resp = resp], 0)
    ELSE CASE c.req = "find_currency" ->
            LET found == IF ok THEN FindByCode(B.currencies, d.currency_code) ELSE 0 IN
            IF found # 0 THEN Adv([c EXCEPT !.loc.currencyId = found], "cat", E)
            ELSE Issue(c, "add_currency", E)
      [] c.req = "add_currency" ->
            IF ok THEN Adv([c EXCEPT !.loc.currencyId = newId], "cat", E)
            ELSE IF resp.kind = "ok_noid" THEN Adv(c, "cat", E)
            ELSE Fail(c, "Failed to create currency")
      [] c.req = "main_currency" ->
            LET main == IF ok THEN B.main_currency ELSE 0 IN
            Adv([c EXCEPT !.loc.currencyId = MainOrFallback(main)], "cat", E)
      [] c.req = "find_category" ->
            LET found == IF ok THEN FindByName(B.categories, d.category_name) ELSE 0 IN
            IF found # 0 THEN Adv([c EXCEPT !.loc.categoryId = found], "pm", E)
            ELSE Issue(c, "add_category", E)
      [] c.req = "add_category" ->
            IF ok THEN Adv([c EXCEPT !.loc.categoryId = newId], "pm", E)
            ELSE IF IsCreate(c) THEN Fail(c, "Failed to create category")
            ELSE Adv(c, "pm", E)
      [] c.req = "find_payment_method" ->
            LET found == IF ok THEN FindByName(B.payment_methods, d.payment_method_name)
                         ELSE 0 IN
            IF found # 0 THEN Adv([c EXCEPT !.loc.paymentMethodId = found], "payer", E)
            ELSE Issue(c, "add_payment_method", E)
      [] c.req = "add_payment_method" ->
            IF ok THEN Adv([c EXCEPT !.loc.paymentMethodId = newId], "payer", E)
            ELSE IF IsCreate(c) /\ resp.kind = "fail"
            THEN Fail(c, "Failed to create payment method")
            ELSE Adv(c, "payer", E)
      [] c.req = "find_member" ->
            LET found == IF ok THEN FindByName(B.household, d.payer_user_name) ELSE 0 IN
            IF found # 0 THEN Adv([c EXCEPT !.loc.payerUserId = found], "build", E)
            ELSE Issue(c, "first_member", E)
      [] c.req = "first_member" ->
            IF ok /\ Len(B.household) > 0
            THEN Adv([c EXCEPT !.loc.payerUserId = FirstMember(B.household)], "build", E)
            ELSE Adv(c, "build", E)
      [] c.req = "add_subscription" ->
            Issue([c EXCEPT !.resp = resp], "refetch", E)
      [] c.req = "edit_subscription" ->
            IF resp.status = "Error" THEN Fail([c EXCEPT !.resp = resp], "message")
            ELSE IF resp.success = "false"
            THEN Fail([c EXCEPT !.resp = resp], "errorMessage")
            ELSE Issue([c EXCEPT !.resp = resp], "refetch", E)
      [] OTHER ->  \* refetch
            LET Mine(s) == IF IsCreate(c) THEN s.name = SUBSCRIPTION_NAME ELSE s.id = c.id
                i == IF ok THEN FirstIndex({k \in 1..Len(B.subscriptions) :
                                               Mine(B.subscriptions[k])})
                     ELSE 0
            IN  Return(c, IF i = 0 THEN 0 ELSE B.subscriptions[i].id)

\* the code that runs when the call's pending round trip is answered
Step(c, resp, B, newId, E) ==
    CASE c.pc = "login" ->
            IF resp.kind = "ok" THEN AfterLogin(c, E)
            ELSE IF resp.kind = "fail" THEN Fail(c, "AuthenticationError")
            ELSE Fail(c, "NetworkError")
      [] c.pc = "keygen" ->
            IF resp.kind = "ok" THEN Send(c, c.req)
            ELSE Fail(c, "Failed to obtain API key")
      [] OTHER -> OnResponse(c, resp, B, newId, E)

(***************************************************************************)
(* The backend's side of a round trip                                      *)
(***************************************************************************)
\* the list a create request of the call adds to
TargetList(c) ==
    CASE c.req = "add_currency"       -> "currencies"
      [] c.req = "add_category"       -> "categories"
      [] c.req = "add_payment_method" -> "payment_methods"
      [] OTHER                        -> "subscriptions"

NewName(c) ==
    CASE c.req = "add_currency"       -> c.d.currency_code
      [] c.req = "add_category"       -> c.d.category_name
      [] c.req = "add_payment_method" -> c.d.payment_method_name
      [] OTHER                        -> SUBSCRIPTION_NAME

Creates(c, resp) ==
    /\ c.pc = "await"
    /\ \/ c.req \in {"add_currency", "add_category", "add_payment_method"}
          /\ resp.kind \in {"ok", "ok_noid"}
       \/ c.req = "add_subscription" /\ resp.kind = "env" /\ Accepted(resp)

Without(list, id) == SelectSeq(list, LAMBDA e : e.id # id)

Renamed(list, id, name) ==
    [i \in 1..Len(list) |-> IF list[i].id = id THEN [list[i] EXCEPT !.name = name]
                            ELSE list[i]]

BackendAfter(B, c, resp) ==
    IF c.pc = "keygen" /\ resp.kind = "ok" THEN [B EXCEPT !.keys = @ + 1]
    ELSE IF Creates(c, resp)
    THEN [B EXCEPT ![TargetList(c)] =
              Append(@, [id |-> NewId(@), name |-> NewName(c)])]
    ELSE IF c.pc = "await" /\ c.req = "edit_category" /\ resp.kind = "ok"
    THEN [B EXCEPT !.categories = Renamed(@, c.id, c.d.category_name)]
    ELSE IF c.pc = "await" /\ c.req = "delete_category" /\ resp.kind = "ok"
    THEN [B EXCEPT !.categories = Without(@, c.id)]
    ELSE B

\* the answers the backend (or the transport) can give to the pending round trip;
\* Envs are the envelopes it may answer a subscription write with
Responses(c, Envs) ==
    IF c.pc \in {"login", "keygen"} THEN {Resp("ok"), Resp("fail"), Resp("neterr")}
    ELSE IF c.req \in {"add_subscription", "edit_subscription"}
    THEN Envs \cup {Resp("neterr")}
    ELSE IF c.req \in {"add_currency", "add_category", "add_payment_method"}
    THEN {Resp("ok"), Resp("ok_noid"), Resp("fail"), Resp("neterr")}
    ELSE {Resp("ok"), Resp("fail"), Resp("neterr")}

IsFault(resp) == resp.kind # "ok" /\ resp \notin CleanEnvelopes

(***************************************************************************)
(* History of login exchanges                                              *)
(***************************************************************************)
SentLogin(c, c2) ==
    Len(c2.sent) > Len(c.sent) /\ c2.sent[Len(c2.sent)] = "login"

LastBy(log, p) ==
    CHOOSE i \in 1..Len(log) : log[i].by = p /\ \A j \in 1..Len(log) : log[j].by = p => j <= i

\* s is the session field as ensureSession read it
LogAfter(log, p, c, c2, resp, s) ==
    LET log0 == IF c.pc = "login"
                THEN [log EXCEPT ![LastBy(log, p)].answer = resp.kind]
                ELSE log
        log1 == IF c.pc = "login" /\ resp.kind = "ok"
                THEN [log0 EXCEPT ![LastBy(log, p)].expiresAt = now + SESSION_TTL]
                ELSE log0
    IN  IF SentLogin(c, c2)
        THEN Append(log1, [by |-> p, sentAt |-> now, expiresAt |-> 0,
                           sawValid |-> SessionValid(s), answer |-> "none"])
        ELSE log1

\* history kept in the call record: the entity creations the backend refused,
\* the lists the call added an entity to, and the main-currency id a
\* currencies read reported to it (0 = none)
Noted(c, c2, resp) ==
    IF c.pc = "await" /\ c.req \in {"add_currency", "add_category", "add_payment_method"}
    THEN IF resp.kind = "fail" THEN [c2 EXCEPT !.rejected = @ \cup {c.req}]
         ELSE IF resp.kind \in {"ok", "ok_noid"} THEN [c2 EXCEPT !.created = @ \cup {c.req}]
         ELSE c2
    ELSE IF c.pc = "await" /\ c.req = "main_currency" /\ resp.kind = "ok"
    THEN [c2 EXCEPT !.reported = backend.main_currency]
    ELSE c2

(***************************************************************************)
(* Actions                                                                 *)
(***************************************************************************)
Env == [session |-> session, apiKey |-> apiKey]

\* the call slot p starts call c0, which runs to its first await as c1
Begin(p, c0, c1) ==
    /\ ~Running(calls[p])
    /\ started' = started + 1
    /\ calls' = [calls EXCEPT ![p] = c1]
    /\ loginLog' = LogAfter(loginLog, p, c0, c1, NoResp, session)
    /\ UNCHANGED <<now, credentials, apiKey, session, backend, faults, sched, config,
                   master>>

\* an ensureSession that does not look at the configured credentials
EnsureSessionUnchecked(c, E) ==
    IF NeedsLogin(E.session) THEN SendLogin(Observe(c, E.session), "start")
    ELSE Adv(Observe(c, E.session), "cur", E)

\* `await this.ensureSession()` at the top of createSubscription / editSubscription
EnsureSessionFirst(c, E) ==
    IF ~credentials THEN Fail(c, "ConfigurationError")
    ELSE IF NeedsLogin(E.session) THEN SendLogin(Observe(c, E.session), "start")
    ELSE Adv(Observe(c, E.session), "cur", E)

addCategory(c, E) == Issue(c, "add_category", E)

updateCategory(c, E) == Issue(c, "edit_category", E)

\* a deleteCategory without its guard
deleteCategoryUnguarded(c, E) == Issue(c, "delete_category", E)

deleteCategory(c, E) ==
    IF c.id = DEFAULT_CATEGORY_ID
    THEN Fail(c, "Cannot delete the default category")
    ELSE Issue(c, "delete_category", E)

CategoryNames == {"Books"}
CategoryIds == {1, 2}

AddCategory(p) ==
    \E name \in CategoryNames :
        LET c0 == NewCall("addCategory", 0, [EmptyData EXCEPT !.category_name = name])
        IN  Begin(p, c0, addCategory(c0, Env))

UpdateCategory(p) ==
    \E id \in CategoryIds, name \in CategoryNames :
        LET c0 == NewCall("updateCategory", id, [EmptyData EXCEPT !.category_name = name])
        IN  Begin(p, c0, updateCategory(c0, Env))

DeleteCategory(p) ==
    \E id \in CategoryIds :
        LET c0 == NewCall("deleteCategory", id, EmptyData)
        IN  Begin(p, c0, deleteCategory(c0, Env))

\* an API read: getCategories() or getSubscriptions()
ReadOps == {"getCategories", "getSubscriptions"}

ReadRequest(op) ==
    IF op = "getCategories" THEN "get_categories" ELSE "get_subscriptions"

Read(p) ==
    \E op \in ReadOps :
        LET c0 == NewCall(op, 0, EmptyData)
        IN  Begin(p, c0, Issue(c0, ReadRequest(op), Env))

\* createSubscription requires name and price
CreateSubscription(p, Inputs) ==
    \E d \in Inputs :
        LET c0 == NewCall("createSubscription", 0,
                          [d EXCEPT !.plain = @ \cup {"name", "price"}])
        IN  Begin(p, c0, EnsureSessionFirst(c0, Env))

\* the id of a subscription the backend holds
EditIds == {5}

EditSubscription(p, Inputs) ==
    \E d \in Inputs, id \in EditIds :
        LET c0 == NewCall("editSubscription", id, d)
        IN  Begin(p, c0, EnsureSessionFirst(c0, Env))

\* an id the backend holds no subscription for
UnknownEditIds == {8}

\* editSubscription of a subscription that does not exist
EditUnknown(p, Inputs) ==
    \E d \in Inputs, id \in UnknownEditIds :
        LET c0 == NewCall("editSubscription", id, d)
        IN  Begin(p, c0, EnsureSessionFirst(c0, Env))

\* a client that stores a session whatever the login exchange returned
SessionAfterAnyAnswer(c, resp) ==
    IF c.pc = "login" /\ resp.kind # "neterr"
    THEN [set |-> TRUE, cookie |-> IF resp.kind = "ok" THEN Len(loginLog) ELSE 0,
          expiresAt |-> now + SESSION_TTL]
    ELSE session

\* this.session after the answer: authenticateWithSession stores a session
\* only when the login response carried a PHPSESSID cookie
SessionAfter(c, resp) ==
    IF c.pc = "login" /\ resp.kind = "ok"
    THEN [set |-> TRUE, cookie |-> Len(loginLog), expiresAt |-> now + SESSION_TTL]
    ELSE session

\* the pending round trip of call p is answered
Respond(p, Envs) ==
    LET c == calls[p] IN
    /\ Running(c)
    /\ \E resp \in Responses(c, Envs) :
        /\ IsFault(resp) => faults < MaxFaults
        /\ faults' = IF IsFault(resp) THEN faults + 1 ELSE faults
        /\ LET S2 == SessionAfter(c, resp)
               K2 == IF c.pc = "keygen" /\ resp.kind = "ok"
                     THEN backend.keys + 1 ELSE apiKey
               newId == IF Creates(c, resp) THEN NewId(backend[TargetList(c)]) ELSE 0
               c2 == Noted(c, Step(c, resp, backend, newId,
                                   [session |-> S2, apiKey |-> K2]), resp)
           IN  /\ session' = S2
               /\ apiKey' = K2
               /\ backend' = BackendAfter(backend, c, resp)
               /\ calls' = [calls EXCEPT ![p] = c2]
               /\ loginLog' = LogAfter(loginLog, p, c, c2, resp, S2)
    /\ UNCHANGED <<now, credentials, started, sched, config, master>>

\* time passes: the clock moves on to the last instant before the expiry of the
\* stored session or to the expiry itself (the instants the code's comparison
\* with expiresAt tells apart)
Tick ==
    /\ session.set
    /\ \E t \in {session.expiresAt - 1, session.expiresAt} :
          t > now /\ now' = t
    /\ UNCHANGED <<credentials, apiKey, session, backend, calls, loginLog, faults,
                   started, sched, config, master>>

(***************************************************************************)
(* The tool handlers' reading of what the client returned or threw         *)
(***************************************************************************)
\* "Handle both old and new response formats"
CheckEnvelope(e) ==
    IF e.status # "" THEN (IF e.status = "Success" THEN "success" ELSE "error")
    ELSE IF e.success # "absent" THEN (IF e.success = "true" THEN "success" ELSE "error")
    ELSE "error"

handleCreateSubscription(c) ==
    IF c.outcome = "thrown" THEN "error" ELSE CheckEnvelope(c.resp)

handleEditSubscription(c) ==
    IF c.outcome = "thrown" THEN "error" ELSE CheckEnvelope(c.resp)

(***************************************************************************)
(* Inputs                                                                  *)
(***************************************************************************)
\* every combination of reference by name and by id, for the four entity kinds:
\* the names match an existing entity in another letter case or match none,
\* the ids are ids the backend does not know
RefInputs ==
    [currency_id : {0, 9}, currency_code : {"", "usd", "xyz"},
     category_name : {"", "FOOD", "Books"}, category_id : {0, 9},
     payment_method_name : {"", "PAYPAL", "Stripe"}, payment_method_id : {0, 9},
     payer_user_name : {"", "Bob", "Carol"}, payer_user_id : {0, 9},
     plain : {{}}, auto_renew : {"undefined"}]

\* every single optional field (auto_renew as true and as false), and all of them
PlainInputs ==
    {[EmptyData EXCEPT !.plain = {f}] : f \in PlainFields}
    \cup {[EmptyData EXCEPT !.auto_renew = v] : v \in {"true", "false"}}
    \cup {[EmptyData EXCEPT !.plain = PlainFields, !.auto_renew = "false"]}

FullInputs == RefInputs \cup PlainInputs

SmallInputs == {[EmptyData EXCEPT !.category_name = "Books"]}

ConcInputs == {[EmptyData EXCEPT !.category_name = "Books", !.payer_user_id = 9]}

(***************************************************************************)
(* DateScheduler: billing period and next-payment date (createSubscription) *)
(***************************************************************************)

\* String.prototype.trim on the period strings in use
Trim(s) ==
    CASE s = " daily " -> "daily"
      [] s = " d " -> "d"
      [] s = " day " -> "day"
      [] s = " weekly " -> "weekly"
      [] s = " w " -> "w"
      [] s = " week " -> "week"
      [] s = " biweekly " -> "biweekly"
      [] s = " bi-weekly " -> "bi-weekly"
      [] s = " fortnightly " -> "fortnightly"
      [] s = " monthly " -> "monthly"
      [] s = " m " -> "m"
      [] s = " month " -> "month"
      [] s = " quarterly " -> "quarterly"
      [] s = " q " -> "q"
      [] s = " quarter " -> "quarter"
      [] s = " semiannually " -> "semiannually"
      [] s = " semi-annually " -> "semi-annually"
      [] s = " halfyearly " -> "halfyearly"
      [] s = " half-yearly " -> "half-yearly"
      [] s = " annually " -> "annually"
      [] s = " yearly " -> "yearly"
      [] s = " y " -> "y"
      [] s = " year " -> "year"
      [] s = " __proto__ " -> "__proto__"
      [] s = " sometimes " -> "sometimes"
      [] OTHER -> s

NoPeriod == [kind |-> "none", n |-> 0, s |-> ""]
NumPeriod(k) == [kind |-> "num", n |-> k, s |-> ""]
StrPeriod(t) == [kind |-> "str", n |-> 0, s |-> t]

\* String(period) for a period that is a number
NumToString(k) ==
    CASE k = 0 -> "0" [] k = 1 -> "1" [] k = 2 -> "2" [] k = 3 -> "3"
      [] k = 4 -> "4" [] k = 5 -> "5" [] OTHER -> "?"

periodMap ==
    [daily |-> [cycle |-> 1, frequency |-> 1],
     d |-> [cycle |-> 1, frequency |-> 1],
     day |-> [cycle |-> 1, frequency |-> 1],
     weekly |-> [cycle |-> 2, frequency |-> 1],
     w |-> [cycle |-> 2, frequency |-> 1],
     week |-> [cycle |-> 2, frequency |-> 1],
     biweekly |-> [cycle |-> 2, frequency |-> 2],
     fortnightly |-> [cycle |-> 2, frequency |-> 2],
     monthly |-> [cycle |-> 3, frequency |-> 1],
     m |-> [cycle |-> 3, frequency |-> 1],
     month |-> [cycle |-> 3, frequency |-> 1],
     quarterly |-> [cycle |-> 3, frequency |-> 3],
     q |-> [cycle |-> 3, frequency |-> 3],
     quarter |-> [cycle |-> 3, frequency |-> 3],
     semiannually |-> [cycle |-> 3, frequency |-> 6],
     halfyearly |-> [cycle |-> 3, frequency |-> 6],
     annually |-> [cycle |-> 4, frequency |-> 1],
     yearly |-> [cycle |-> 4, frequency |-> 1],
     y |-> [cycle |-> 4, frequency |-> 1],
     year |-> [cycle |-> 4, frequency |-> 1]]
    @@ ("bi-weekly" :> [cycle |-> 2, frequency |-> 2])
    @@ ("semi-annually" :> [cycle |-> 3, frequency |-> 6])
    @@ ("half-yearly" :> [cycle |-> 3, frequency |-> 6])

unitMap == [day |-> 1, week |-> 2, month |-> 3, year |-> 4]

\* periodStr.match(/^(\d+)\s*(day|week|month|year)s?$/) on the period strings in use
PatternMatch(t) ==
    CASE t = "2 weeks"  -> [ok |-> TRUE, num |-> 2, unit |-> "week"]
      [] t = "0 days"   -> [ok |-> TRUE, num |-> 0, unit |-> "day"]
      [] t = "3 months" -> [ok |-> TRUE, num |-> 3, unit |-> "month"]
      [] t = "10day"    -> [ok |-> TRUE, num |-> 10, unit |-> "day"]
      [] t = "1 year"   -> [ok |-> TRUE, num |-> 1, unit |-> "year"]
      [] OTHER          -> [ok |-> FALSE, num |-> 0, unit |-> ""]

\* frequency || 1, with 0 standing for an absent frequency as well
OrOne(frequency) == IF frequency # 0 THEN frequency ELSE 1

\* the lower-case names every JavaScript object literal inherits from
\* Object.prototype: periodMap[name] is then an object without cycle or frequency
InheritedKeys == {"constructor", "__proto__"}

\* a parser that keeps the frequency the alias implies
KeepImplied(result, frequency) == result

\* frequency ? { ...result, frequency } : result
Override(result, frequency) ==
    IF frequency # 0 THEN [result EXCEPT !.frequency = frequency] ELSE result

\* what parseBillingPeriod returns, and whether it wrote its warning;
\* a cycle or frequency of 0 is a property the returned object does not have
Parsed(cycle, frequency, warning) ==
    [cycle |-> cycle, frequency |-> frequency, warning |-> warning]

\* a pattern branch in which a supplied multiplier replaces the number
FromPatternOverridden(match, frequency) ==
    Parsed(unitMap[match.unit], IF frequency # 0 THEN frequency ELSE match.num, FALSE)

\* return { cycle: unitMap[unit], frequency: num }
FromPattern(match, frequency) == Parsed(unitMap[match.unit], match.num, FALSE)

parseBillingPeriod(period, frequency) ==
    IF period.kind = "none" \/ (period.kind = "num" /\ period.n = 0)
          \/ (period.kind = "str" /\ period.s = "")
    THEN Parsed(3, OrOne(frequency), FALSE)
    ELSE IF period.kind = "num" /\ period.n >= 1 /\ period.n <= 4
    THEN Parsed(period.n, OrOne(frequency), FALSE)
    ELSE LET periodStr == Trim(ToLowerCase(IF period.kind = "num"
                                           THEN NumToString(period.n)
                                           ELSE period.s))
             match == PatternMatch(periodStr)
         IN  IF periodStr \in DOMAIN periodMap
             THEN LET result == Override(periodMap[periodStr], frequency)
                  IN  Parsed(result.cycle, result.frequency, FALSE)
             ELSE IF periodStr \in InheritedKeys
             THEN Parsed(0, frequency, FALSE)
             ELSE IF match.ok
             THEN FromPattern(match, frequency)
             ELSE Parsed(3, OrOne(frequency), TRUE)

\* Calendar arithmetic of the Date built-in.  An instant is a number of hours
\* since 1970-01-01T00:00Z; a calendar date is <<year, month, day>>.

DaysFromCivil(y, m, d) ==
    LET yy  == IF m <= 2 THEN y - 1 ELSE y
        era == yy \div 400
        yoe == yy - era * 400
        mp  == (m + 9) % 12
        doy == (153 * mp + 2) \div 5 + d - 1
        doe == yoe * 365 + yoe \div 4 - yoe \div 100 + doy
    IN  era * 146097 + doe - 719468

CivilFromDays(z) ==
    LET zz  == z + 719468
        era == zz \div 146097
        doe == zz - era * 146097
        yoe == (doe - doe \div 1460 + doe \div 36524 - doe \div 146096) \div 365
        doy == doe - (365 * yoe + yoe \div 4 - yoe \div 100)
        mp  == (5 * doy + 2) \div 153
        d   == doy - (153 * mp + 2) \div 5 + 1
        m   == IF mp < 10 THEN mp + 3 ELSE mp - 9
        y   == yoe + era * 400 + (IF m <= 2 THEN 1 ELSE 0)
    IN  <<y, m, d>>

\* new Date('YYYY-MM-DD'): midnight UTC of that date
ParseDate(s) == DaysFromCivil(s[1], s[2], s[3]) * 24

\* date.toISOString().split('T')[0]: the UTC calendar date of the instant
ToISODate(t) == CivilFromDays(t \div 24)

\* local calendar day number and local hour of an instant, tz hours east of UTC
LocalDay(t, tz) == (t + tz) \div 24
LocalHour(t, tz) == (t + tz) % 24
FromLocal(day, hour, tz) == day * 24 + hour - tz

\* today.setHours(0, 0, 0, 0)
SetHoursZero(t, tz) == FromLocal(LocalDay(t, tz), 0, tz)

\* next.setDate(next.getDate() + k)
AddDays(t, k, tz) == FromLocal(LocalDay(t, tz) + k, LocalHour(t, tz), tz)

\* next.setMonth(next.getMonth() + k): the day of the month is kept and
\* overflows into the following month
AddMonths(t, k, tz) ==
    LET c  == CivilFromDays(LocalDay(t, tz))
        m0 == (c[2] - 1) + k
        y2 == c[1] + m0 \div 12
        m2 == (m0 % 12) + 1
    IN  FromLocal(DaysFromCivil(y2, m2, 1) + c[3] - 1, LocalHour(t, tz), tz)

\* next.setFullYear(next.getFullYear() + k)
AddYears(t, k, tz) ==
    LET c == CivilFromDays(LocalDay(t, tz))
    IN  FromLocal(DaysFromCivil(c[1] + k, c[2], 1) + c[3] - 1, LocalHour(t, tz), tz)

\* one iteration of the body of `while (next <= today)`
AdvanceCycle(t, cycle, frequency, tz) ==
    CASE cycle = 1 -> AddDays(t, frequency, tz)
      [] cycle = 2 -> AddDays(t, frequency * 7, tz)
      [] cycle = 3 -> AddMonths(t, frequency, tz)
      [] cycle = 4 -> AddYears(t, frequency, tz)
      [] OTHER     -> t

NoDate == <<>>

SchedIdle ==
    [pc |-> "idle", tz |-> 0, clock |-> 0, start_date |-> NoDate,
     next_payment |-> NoDate, cycle |-> 0, frequency |-> 0, today |-> 0,
     next |-> 0, startDate |-> NoDate, nextPayment |-> NoDate, steps |-> 0,
     period |-> NoPeriod, meant |-> "", given |-> FALSE, billing_frequency |-> 0,
     warning |-> FALSE]

\* time zones of the host, in hours east of UTC
TimeZones == {-5, 0, 2}

\* instants at which the computation runs: hours 01, 12 and 23 UTC of 2024-03-15
Clocks == {ParseDate(<<2024, 3, 15>>) + h : h \in {1, 12, 23}}

StartDates == {NoDate, <<2024, 3, 14>>, <<2024, 3, 1>>, <<2024, 1, 31>>,
               <<2023, 2, 28>>, <<2024, 3, 20>>}
NextPayments == {NoDate, <<2024, 4, 1>>, <<2024, 1, 1>>}
Periods == {NoPeriod, NumPeriod(1), NumPeriod(2), NumPeriod(4), NumPeriod(5),
            StrPeriod("WEEKLY"), StrPeriod("quarterly"), StrPeriod("3 months"),
            StrPeriod(" daily "), StrPeriod("sometimes"), StrPeriod("0 days")}
Frequencies == {-1, 0, 1, 2}

\* iterations of the date loop that are followed
MaxSteps == 400

\* a client that leaves the start date out when only the next payment is given
StartLeftOut(next_payment) == NoDate

\* startDate = nextPayment, when only next_payment was provided
StartFromNext(next_payment) == next_payment

\* createSubscription, from parseBillingPeriod to the start of the date loop
ScheduleDates ==
    /\ sched.pc = "idle"
    /\ \E tz \in TimeZones, clock \in Clocks, start_date \in StartDates,
          next_payment \in NextPayments, period \in Periods,
          billing_frequency \in Frequencies :
          LET p  == parseBillingPeriod(period, billing_frequency)
              s0 == [sched EXCEPT !.tz = tz, !.clock = clock,
                                  !.start_date = start_date,
                                  !.next_payment = next_payment,
                                  !.cycle = p.cycle, !.frequency = p.frequency,
                                  !.startDate = start_date,
                                  !.nextPayment = next_payment]
          IN  sched' =
                IF start_date = NoDate /\ next_payment = NoDate
                THEN [s0 EXCEPT !.pc = "done", !.startDate = ToISODate(clock),
                                !.nextPayment = ToISODate(clock)]
                ELSE IF start_date # NoDate /\ next_payment = NoDate
                THEN [s0 EXCEPT !.pc = "loop",
                                !.today = SetHoursZero(clock, tz),
                                !.next = ParseDate(start_date)]
                ELSE IF start_date = NoDate
                THEN [s0 EXCEPT !.pc = "done", !.startDate = StartFromNext(next_payment)]
                ELSE [s0 EXCEPT !.pc = "done"]
    /\ UNCHANGED engineVars

\* one iteration of the loop
AdvanceNext ==
    /\ sched.pc = "loop"
    /\ sched.next <= sched.today
    /\ sched.steps < MaxSteps
    /\ sched' = [sched EXCEPT
                   !.next = AdvanceCycle(sched.next, sched.cycle,
                                         sched.frequency, sched.tz),
                   !.steps = @ + 1]
    /\ UNCHANGED engineVars

\* loop exit
FinishDates ==
    /\ sched.pc = "loop"
    /\ sched.next > sched.today
    /\ sched' = [sched EXCEPT !.pc = "done",
                              !.nextPayment = ToISODate(sched.next)]
    /\ UNCHANGED engineVars

\* the dictionary aliases as callers spell them: in lower case, in upper case,
\* and between blanks in lower case and capitalised; meant is the alias
AliasSpellings ==
    {[meant |-> "daily", period |-> StrPeriod("daily")],
     [meant |-> "daily", period |-> StrPeriod("DAILY")],
     [meant |-> "daily", period |-> StrPeriod(" daily ")],
     [meant |-> "daily", period |-> StrPeriod(" Daily ")],
     [meant |-> "d", period |-> StrPeriod("d")],
     [meant |-> "d", period |-> StrPeriod("D")],
     [meant |-> "d", period |-> StrPeriod(" d ")],
     [meant |-> "d", period |-> StrPeriod(" D ")],
     [meant |-> "day", period |-> StrPeriod("day")],
     [meant |-> "day", period |-> StrPeriod("DAY")],
     [meant |-> "day", period |-> StrPeriod(" day ")],
     [meant |-> "day", period |-> StrPeriod(" Day ")],
     [meant |-> "weekly", period |-> StrPeriod("weekly")],
     [meant |-> "weekly", period |-> StrPeriod("WEEKLY")],
     [meant |-> "weekly", period |-> StrPeriod(" weekly ")],
     [meant |-> "weekly", period |-> StrPeriod(" Weekly ")],
     [meant |-> "w", period |-> StrPeriod("w")],
     [meant |-> "w", period |-> StrPeriod("W")],
     [meant |-> "w", period |-> StrPeriod(" w ")],
     [meant |-> "w", period |-> StrPeriod(" W ")],
     [meant |-> "week", period |-> StrPeriod("week")],
     [meant |-> "week", period |-> StrPeriod("WEEK")],
     [meant |-> "week", period |-> StrPeriod(" week ")],
     [meant |-> "week", period |-> StrPeriod(" Week ")],
     [meant |-> "biweekly", period |-> StrPeriod("biweekly")],
     [meant |-> "biweekly", period |-> StrPeriod("BIWEEKLY")],
     [meant |-> "biweekly", period |-> StrPeriod(" biweekly ")],
     [meant |-> "biweekly", period |-> StrPeriod(" Biweekly ")],
     [meant |-> "bi-weekly", period |-> StrPeriod("bi-weekly")],
     [meant |-> "bi-weekly", period |-> StrPeriod("BI-WEEKLY")],
     [meant |-> "bi-weekly", period |-> StrPeriod(" bi-weekly ")],
     [meant |-> "bi-weekly", period |-> StrPeriod(" Bi-weekly ")],
     [meant |-> "fortnightly", period |-> StrPeriod("fortnightly")],
     [meant |-> "fortnightly", period |-> StrPeriod("FORTNIGHTLY")],
     [meant |-> "fortnightly", period |-> StrPeriod(" fortnightly ")],
     [meant |-> "fortnightly", period |-> StrPeriod(" Fortnightly ")],
     [meant |-> "monthly", period |-> StrPeriod("monthly")],
     [meant |-> "monthly", period |-> StrPeriod("MONTHLY")],
     [meant |-> "monthly", period |-> StrPeriod(" monthly ")],
     [meant |-> "monthly", period |-> StrPeriod(" Monthly ")],
     [meant |-> "m", period |-> StrPeriod("m")],
     [meant |-> "m", period |-> StrPeriod("M")],
     [meant |-> "m", period |-> StrPeriod(" m ")],
     [meant |-> "m", period |-> StrPeriod(" M ")],
     [meant |-> "month", period |-> StrPeriod("month")],
     [meant |-> "month", period |-> StrPeriod("MONTH")],
     [meant |-> "month", period |-> StrPeriod(" month ")],
     [meant |-> "month", period |-> StrPeriod(" Month ")],
     [meant |-> "quarterly", period |-> StrPeriod("quarterly")],
     [meant |-> "quarterly", period |-> StrPeriod("QUARTERLY")],
     [meant |-> "quarterly", period |-> StrPeriod(" quarterly ")],
     [meant |-> "quarterly", period |-> StrPeriod(" Quarterly ")],
     [meant |-> "q", period |-> StrPeriod("q")],
     [meant |-> "q", period |-> StrPeriod("Q")],
     [meant |-> "q", period |-> StrPeriod(" q ")],
     [meant |-> "q", period |-> StrPeriod(" Q ")],
     [meant |-> "quarter", period |-> StrPeriod("quarter")],
     [meant |-> "quarter", period |-> StrPeriod("QUARTER")],
     [meant |-> "quarter", period |-> StrPeriod(" quarter ")],
     [meant |-> "quarter", period |-> StrPeriod(" Quarter ")],
     [meant |-> "semiannually", period |-> StrPeriod("semiannually")],
     [meant |-> "semiannually", period |-> StrPeriod("SEMIANNUALLY")],
     [meant |-> "semiannually", period |-> StrPeriod(" semiannually ")],
     [meant |-> "semiannually", period |-> StrPeriod(" Semiannually ")],
     [meant |-> "semi-annually", period |-> StrPeriod("semi-annually")],
     [meant |-> "semi-annually", period |-> StrPeriod("SEMI-ANNUALLY")],
     [meant |-> "semi-annually", period |-> StrPeriod(" semi-annually ")],
     [meant |-> "semi-annually", period |-> StrPeriod(" Semi-annually ")],
     [meant |-> "halfyearly", period |-> StrPeriod("halfyearly")],
     [meant |-> "halfyearly", period |-> StrPeriod("HALFYEARLY")],
     [meant |-> "halfyearly", period |-> StrPeriod(" halfyearly ")],
     [meant |-> "halfyearly", period |-> StrPeriod(" Halfyearly ")],
     [meant |-> "half-yearly", period |-> StrPeriod("half-yearly")],
     [meant |-> "half-yearly", period |-> StrPeriod("HALF-YEARLY")],
     [meant |-> "half-yearly", period |-> StrPeriod(" half-yearly ")],
     [meant |-> "half-yearly", period |-> StrPeriod(" Half-yearly ")],
     [meant |-> "annually", period |-> StrPeriod("annually")],
     [meant |-> "annually", period |-> StrPeriod("ANNUALLY")],
     [meant |-> "annually", period |-> StrPeriod(" annually ")],
     [meant |-> "annually", period |-> StrPeriod(" Annually ")],
     [meant |-> "yearly", period |-> StrPeriod("yearly")],
     [meant |-> "yearly", period |-> StrPeriod("YEARLY")],
     [meant |-> "yearly", period |-> StrPeriod(" yearly ")],
     [meant |-> "yearly", period |-> StrPeriod(" Yearly ")],
     [meant |-> "y", period |-> StrPeriod("y")],
     [meant |-> "y", period |-> StrPeriod("Y")],
     [meant |-> "y", period |-> StrPeriod(" y ")],
     [meant |-> "y", period |-> StrPeriod(" Y ")],
     [meant |-> "year", period |-> StrPeriod("year")],
     [meant |-> "year", period |-> StrPeriod("YEAR")],
     [meant |-> "year", period |-> StrPeriod(" year ")],
     [meant |-> "year", period |-> StrPeriod(" Year ")]}

\* periods that are no alias, no number of a cycle and no "<n> <unit>" expression
Unrecognized ==
    {[meant |-> "unrecognized", period |-> q] :
        q \in {StrPeriod("sometimes"), StrPeriod(" sometimes "),
               StrPeriod("unknown-frequency"), StrPeriod("constructor"),
               StrPeriod("Constructor"), StrPeriod(" __proto__ "), NumPeriod(5)}}

OtherPeriods ==
    {[meant |-> "", period |-> q] :
        q \in {NoPeriod, NumPeriod(0), NumPeriod(1), NumPeriod(4), StrPeriod(""),
               StrPeriod("2 weeks"), StrPeriod("3 MONTHS"), StrPeriod("10day"),
               StrPeriod("1 year"), StrPeriod("0 days")}}

\* billing_frequency as the caller passed it: absent, or a number
FrequencyInputs ==
    {[given |-> FALSE, value |-> 0]} \cup {[given |-> TRUE, value |-> v] : v \in {-1, 0, 1, 2, 3}}

\* const { cycle, frequency } = this.parseBillingPeriod(data.billing_period,
\*                                                     data.billing_frequency)
ParseBilling ==
    /\ sched.pc = "idle"
    /\ \E inp \in AliasSpellings \cup Unrecognized \cup OtherPeriods,
          f \in FrequencyInputs :
          LET r == parseBillingPeriod(inp.period, f.value) IN
          sched' = [sched EXCEPT !.pc = "parsed", !.period = inp.period,
                                 !.meant = inp.meant, !.given = f.given,
                                 !.billing_frequency = f.value,
                                 !.cycle = r.cycle, !.frequency = r.frequency,
                                 !.warning = r.warning]
    /\ UNCHANGED engineVars


(***************************************************************************)
(* getMasterData: four reads started together, and Promise.all over them   *)
(***************************************************************************)
\* carried[i] is the api_key put on the i-th read when it was sent (0: not sent)
MasterIdle ==
    [pc |-> "idle", reads |-> <<>>, outcome |-> "none", err |-> "", result |-> {},
     carried |-> <<0, 0, 0, 0>>]

\* config.params = { ...config.params, api_key: this.apiKey }, once
\* ensureApiKey has returned in the interceptor of the read
Carry(carried, i, c, c2, key) ==
    IF c.pc # "await" /\ c2.pc = "await" THEN [carried EXCEPT ![i] = key] ELSE carried

\* the reads in the order Promise.all is given them, and the part of the
\* result each one fills
MasterReads ==
    <<[op |-> "getCategories", request |-> "get_categories", part |-> "categories"],
      [op |-> "getCurrencies", request |-> "get_currencies", part |-> "currencies"],
      [op |-> "getPaymentMethods", request |-> "get_payment_methods",
       part |-> "payment_methods"],
      [op |-> "getHousehold", request |-> "get_household", part |-> "household"]>>

Readers == DOMAIN MasterReads

MasterThrows(m) ==
    [m EXCEPT !.pc = "done", !.outcome = "thrown", !.err = "Failed to fetch master data"]

\* the parts of the result taken from the reads that reported success
Filled(m) == {MasterReads[i].part : i \in {j \in Readers : m.reads[j].resp.kind = "ok"}}

\* a getMasterData that aggregates whatever the four reads returned
MasterSettleUnchecked(m) ==
    IF m.pc # "waiting" THEN m
    ELSE IF \E i \in Readers : m.reads[i].outcome = "thrown" THEN MasterThrows(m)
    ELSE IF \A i \in Readers : m.reads[i].pc = "done"
    THEN [m EXCEPT !.pc = "done", !.outcome = "returned", !.result = Filled(m)]
    ELSE m

\* the continuation of `await Promise.all([...])`: the catch block on the first
\* rejection; once all four are fulfilled, the success checks and the aggregation
MasterSettle(m) ==
    IF m.pc # "waiting" THEN m
    ELSE IF \E i \in Readers : m.reads[i].outcome = "thrown" THEN MasterThrows(m)
    ELSE IF \A i \in Readers : m.reads[i].pc = "done"
    THEN IF \E i \in Readers : m.reads[i].resp.kind # "ok"
         THEN MasterThrows(m)
         ELSE [m EXCEPT !.pc = "done", !.outcome = "returned", !.result = Filled(m)]
    ELSE m

\* the login history after the reads 1..k have started
RECURSIVE LogStarted(_, _, _)
LogStarted(log, reads, k) ==
    IF k = 0 THEN log
    ELSE LogAfter(LogStarted(log, reads, k - 1), k,
                  NewCall(MasterReads[k].op, 0, EmptyData), reads[k], NoResp, session)

\* getMasterData(): each of the four reads runs up to its first await
GetMasterData ==
    /\ master.pc = "idle"
    /\ LET reads == [i \in Readers |->
                       Issue(NewCall(MasterReads[i].op, 0, EmptyData),
                             MasterReads[i].request, Env)]
           carried == [i \in Readers |-> IF reads[i].pc = "await" THEN apiKey ELSE 0]
       IN  /\ master' = MasterSettle([MasterIdle EXCEPT !.pc = "waiting", !.reads = reads,
                                                        !.carried = carried])
           /\ loginLog' = LogStarted(loginLog, reads, Len(MasterReads))
    /\ UNCHANGED <<now, credentials, apiKey, session, backend, calls, faults, started,
                   sched, config>>

\* the pending round trip of read i is answered; the read runs on, and
\* Promise.all's continuation with it
RespondRead(i) ==
    LET c == master.reads[i] IN
    /\ master.pc # "idle"
    /\ Running(c)
    /\ \E resp \in Responses(c, {}) :
        /\ IsFault(resp) => faults < MaxFaults
        /\ faults' = IF IsFault(resp) THEN faults + 1 ELSE faults
        /\ LET S2 == SessionAfter(c, resp)
               K2 == IF c.pc = "keygen" /\ resp.kind = "ok"
                     THEN backend.keys + 1 ELSE apiKey
               c2 == Step(c, resp, backend, 0, [session |-> S2, apiKey |-> K2])
           IN  /\ session' = S2
               /\ apiKey' = K2
               /\ backend' = BackendAfter(backend, c, resp)
               /\ master' = MasterSettle([master EXCEPT
                                            !.reads[i] = c2,
                                            !.carried = Carry(@, i, c, c2, K2)])
               /\ loginLog' = LogAfter(loginLog, i, c, c2, resp, S2)
    /\ UNCHANGED <<now, credentials, calls, started, sched, config>>

(***************************************************************************)
(* The category tool handlers (src/tools/categories.ts)                    *)
(***************************************************************************)
ToolOf(op) ==
    CASE op = "addCategory"    -> "handleAddCategory"
      [] op = "updateCategory" -> "handleUpdateCategory"
      [] OTHER                 -> "handleDeleteCategory"

\* handlers that protect only the deletion of the default category
GuardsDeleteOnly(tool, id) == tool = "handleDeleteCategory" /\ id = DEFAULT_CATEGORY_ID

\* `if (params.id === 1) throw ...` at the top of handleUpdateCategory and
\* handleDeleteCategory
Guards(tool, id) ==
    tool \in {"handleUpdateCategory", "handleDeleteCategory"} /\ id = DEFAULT_CATEGORY_ID

\* the handler threw before it called the client
Guarded(c) == [c EXCEPT !.pc = "done", !.outcome = "guarded"]

\* a handler starts: the guard, then the client's method up to its first await
Handle(p, op, id, name) ==
    LET c0 == [NewCall(op, id, [EmptyData EXCEPT !.category_name = name])
                 EXCEPT !.tool = ToolOf(op)]
        c1 == CASE op = "addCategory"    -> addCategory(c0, Env)
                [] op = "updateCategory" -> updateCategory(c0, Env)
                [] OTHER                 -> deleteCategory(c0, Env)
    IN  Begin(p, c0, IF Guards(ToolOf(op), id) THEN Guarded(c0) ELSE c1)

HandleAddCategory(p) == \E name \in CategoryNames : Handle(p, "addCategory", 0, name)

HandleUpdateCategory(p) ==
    \E id \in CategoryIds, name \in CategoryNames : Handle(p, "updateCategory", id, name)

HandleDeleteCategory(p) == \E id \in CategoryIds : Handle(p, "deleteCategory", id, "")

\* a handler run on a client double whose method rejects with a value that is
\* not an Error (mockRejectedValue('String error'))
HandleOnRejectingDouble(p) ==
    \E op \in {"addCategory", "updateCategory", "deleteCategory"} :
        LET c0 == [NewCall(op, IF op = "addCategory" THEN 0 ELSE 2,
                           [EmptyData EXCEPT !.category_name = "Books"])
                     EXCEPT !.tool = ToolOf(op)]
        IN  Begin(p, c0, [c0 EXCEPT !.pc = "done", !.outcome = "thrown_value"])

ToolError(tool) ==
    CASE tool = "handleAddCategory"    -> "Failed to add category"
      [] tool = "handleUpdateCategory" -> "Failed to update category"
      [] OTHER                         -> "Failed to delete category"

GuardMessage(tool) ==
    IF tool = "handleUpdateCategory" THEN "Cannot modify the default category (ID: 1)"
    ELSE "Cannot delete the default category (ID: 1)"

ErrorResult(tool, details) ==
    [kind |-> "error", error |-> ToolError(tool), details |-> details, timestamp |-> TRUE]

\* handlers whose try block has no catch: what the client throws comes out
ToolResultUncaught(c) ==
    IF c.outcome \in {"thrown", "thrown_value", "guarded"}
    THEN [kind |-> "thrown", error |-> "", details |-> c.err, timestamp |-> FALSE]
    ELSE IF c.resp.kind \in {"ok", "ok_noid"}
    THEN [kind |-> "success", error |-> "", details |-> "", timestamp |-> FALSE]
    ELSE ErrorResult(c.tool, "errorMessage")

\* what the handler returns once the client's method has settled: the JSON of
\* the try block, or of the catch block
ToolResult(c) ==
    CASE c.outcome = "guarded"      -> ErrorResult(c.tool, GuardMessage(c.tool))
      [] c.outcome = "thrown"       -> ErrorResult(c.tool, c.err)
      [] c.outcome = "thrown_value" -> ErrorResult(c.tool, "Unknown error occurred")
      [] c.resp.kind \in {"ok", "ok_noid"} ->
            [kind |-> "success", error |-> "", details |-> "", timestamp |-> FALSE]
      [] OTHER  -> \* success: false, with the backend's errorMessage
            ErrorResult(c.tool, "errorMessage")

(***************************************************************************)
(* Specifications                                                          *)
(***************************************************************************)
\* the constructor accepts an api key, or a username with a password, or both;
\* B is the backend the client is pointed at
InitWith(B) ==
    /\ now = 0
    /\ credentials \in BOOLEAN
    /\ apiKey \in {0, 99}
    /\ apiKey # 0 \/ credentials
    /\ session = NoSession
    /\ backend = B
    /\ calls = [p \in Procs |-> IdleCall]
    /\ loginLog = <<>>
    /\ faults = 0
    /\ started = 0
    /\ sched = SchedIdle
    /\ master = MasterIdle
    /\ config = [apiKey |-> apiKey,
                 username |-> IF credentials THEN "user" ELSE "",
                 password |-> IF credentials THEN "secret" ELSE "",
                 state |-> "constructed"]

Init == InitWith(InitBackend)

Call(p, Inputs) ==
    \/ AddCategory(p)
    \/ UpdateCategory(p)
    \/ DeleteCategory(p)
    \/ CreateSubscription(p, Inputs)
    \/ EditSubscription(p, Inputs)

\* one caller: each call ends before the next starts
Next ==
    \/ started < MaxCalls /\ Call(1, SmallInputs)
    \/ Respond(1, PureEnvelopes)
    \/ Tick

Spec == Init /\ [][Next]_vars

\* callers that do not wait for each other, one call each
NextConc ==
    \/ \E p \in Procs : calls[p].pc = "idle" /\ Call(p, ConcInputs)
    \/ \E p \in Procs : Respond(p, PureEnvelopes)

SpecConc == Init /\ [][NextConc]_vars

\* the ids the backend may hold as the user's main currency
MainCurrencies == {1, 2}

InitSub == \E m \in MainCurrencies : InitWith([InitBackend EXCEPT !.main_currency = m])

\* one subscription mutation, over every input
NextSub ==
    \/ started = 0 /\ CreateSubscription(1, FullInputs)
    \/ started = 0 /\ EditSubscription(1, FullInputs)
    \/ started = 0 /\ EditUnknown(1, PlainInputs)
    \/ Respond(1, Envelopes)

SpecSub == InitSub /\ [][NextSub]_vars

\* one caller issuing API reads and category additions
NextRead ==
    \/ started < MaxCalls /\ Read(1)
    \/ started < MaxCalls /\ AddCategory(1)
    \/ Respond(1, PureEnvelopes)
    \/ Tick

SpecRead == Init /\ [][NextRead]_vars

NextDate == ScheduleDates \/ AdvanceNext \/ FinishDates

SpecDate == Init /\ [][NextDate]_vars

\* the date computation of a client configured with username and password
\* runs on: an iteration or the exit that can be taken is taken
InitLoop == Init /\ credentials = TRUE /\ apiKey = 0

SpecLoop ==
    /\ InitLoop
    /\ [][NextDate]_vars
    /\ WF_vars(AdvanceNext) /\ WF_vars(FinishDates)

\* the configurations a client may be constructed from: each of api key,
\* username and password present or absent
Configs ==
    [apiKey : {0, 99}, username : {"", "user"}, password : {"", "secret"}, state : {"new"}]

\* a constructor that asks for the api key or any one of username and password
RejectsWithoutAny(cfg) == cfg.apiKey = 0 /\ cfg.username = "" /\ cfg.password = ""

\* !config.apiKey && (!config.username || !config.password)
Rejects(cfg) == cfg.apiKey = 0 /\ (cfg.username = "" \/ cfg.password = "")

\* before `new WallosClient(config)`
InitNew ==
    /\ now = 0
    /\ credentials = FALSE
    /\ apiKey = 0
    /\ session = NoSession
    /\ backend = InitBackend
    /\ calls = [p \in Procs |-> IdleCall]
    /\ loginLog = <<>>
    /\ faults = 0
    /\ started = 0
    /\ sched = SchedIdle
    /\ master = MasterIdle
    /\ config = [apiKey |-> 0, username |-> "", password |-> "", state |-> "new"]

\* new WallosClient(config)
Construct ==
    /\ config.state = "new"
    /\ \E cfg \in Configs :
          IF Rejects(cfg)
          THEN /\ config' = [cfg EXCEPT !.state = "thrown"]
               /\ UNCHANGED <<apiKey, credentials>>
          ELSE /\ config' = [cfg EXCEPT !.state = "constructed"]
               /\ apiKey' = cfg.apiKey
               /\ credentials' = (cfg.username # "" /\ cfg.password # "")
    /\ UNCHANGED <<now, session, backend, calls, loginLog, faults, started, sched,
                   master>>

\* construction, then API reads and category additions on the constructed client
NextNew ==
    \/ Construct
    \/ config.state = "constructed" /\ NextRead

SpecNew == InitNew /\ [][NextNew]_vars

\* one caller using the category tools
NextTool ==
    \/ started < MaxCalls /\ HandleAddCategory(1)
    \/ started < MaxCalls /\ HandleUpdateCategory(1)
    \/ started < MaxCalls /\ HandleDeleteCategory(1)
    \/ started < MaxCalls /\ HandleOnRejectingDouble(1)
    \/ Respond(1, PureEnvelopes)
    \/ Tick

SpecTool == Init /\ [][NextTool]_vars

\* one getMasterData call
NextMaster ==
    \/ GetMasterData
    \/ \E i \in Readers : RespondRead(i)

SpecMaster == Init /\ [][NextMaster]_vars

\* the billing period parser over its inputs
NextParse == ParseBilling

SpecParse == Init /\ [][NextParse]_vars

(***************************************************************************)
(* Properties                                                              *)
(***************************************************************************)
Done(c) == c.pc = "done"

Count(seq, x) == Cardinality({i \in 1..Len(seq) : seq[i] = x})

IsSub(c) == c.op \in {"createSubscription", "editSubscription"}

Submitted(c) == Count(c.sent, "add_subscription") + Count(c.sent, "edit_subscription") > 0

\* C1: with one caller, a login exchange is sent only by an ensureSession that
\* found the session absent or expired, and never inside the lifetime of a
\* session that an earlier login stored: one login per session lifetime, not
\* one per mutation.
C1_OneLoginPerWindow ==
    \A j \in 1..Len(loginLog) :
        /\ ~loginLog[j].sawValid
        /\ \A i \in 1..(j - 1) :
              loginLog[i].expiresAt # 0 => loginLog[j].sentAt >= loginLog[i].expiresAt

\* a second write has returned inside the lifetime of the session the first one
\* logged in for, having sent requests but no login
C1_Witness ==
    /\ started = 2
    /\ Done(calls[1]) /\ calls[1].outcome = "returned"
    /\ Len(calls[1].sent) > 0 /\ Count(calls[1].sent, "login") = 0
    /\ Len(loginLog) = 1 /\ loginLog[1].expiresAt # 0
    /\ now < loginLog[1].expiresAt

\* C4: deleteCategory(1) throws at once: no login, no request, and the step
\* leaves session, api key, backend and login history as they were.
C4_DeleteDefaultRejected ==
    [][\A p \in Procs :
          (calls'[p] # calls[p] /\ calls'[p].op = "deleteCategory"
              /\ calls'[p].id = DEFAULT_CATEGORY_ID)
          => /\ Done(calls'[p]) /\ calls'[p].outcome = "thrown"
             /\ calls'[p].sent = <<>>
             /\ session' = session /\ apiKey' = apiKey
             /\ backend' = backend /\ loginLog' = loginLog]_vars

\* deleteCategory(1) was refused on a client whose session had expired
C4_Witness ==
    /\ calls[1].op = "deleteCategory" /\ calls[1].id = DEFAULT_CATEGORY_ID
    /\ calls[1].outcome = "thrown"
    /\ credentials /\ session.set /\ now >= session.expiresAt

\* C5 (as claimed): updateCategory(1, name) fails without a login and without
\* an edit request.
C5_UpdateDefaultRejected ==
    \A p \in Procs :
        (calls[p].op = "updateCategory" /\ calls[p].id = DEFAULT_CATEGORY_ID)
        => /\ calls[p].sent = <<>>
           /\ Done(calls[p]) /\ calls[p].outcome = "thrown"

\* the input fields an outgoing edit field is derived from
Origin(k) ==
    CASE k = "currency_id"       -> {"currency_id", "currency_code"}
      [] k = "category_id"       -> {"category_id", "category_name"}
      [] k = "payment_method_id" -> {"payment_method_id", "payment_method_name"}
      [] k = "payer_user_id"     -> {"payer_user_id", "payer_user_name"}
      [] k = "cycle"             -> {"billing_period"}
      [] k = "frequency"         -> {"billing_frequency", "billing_period"}
      [] OTHER                   -> {k}

\* the fields explicitly present in an input
Present(d) ==
    d.plain
    \cup IfSent(d.auto_renew # "undefined", "auto_renew")
    \cup IfSent(d.currency_id # 0, "currency_id")
    \cup IfSent(d.currency_code # "", "currency_code")
    \cup IfSent(d.category_id # 0, "category_id")
    \cup IfSent(d.category_name # "", "category_name")
    \cup IfSent(d.payment_method_id # 0, "payment_method_id")
    \cup IfSent(d.payment_method_name # "", "payment_method_name")
    \cup IfSent(d.payer_user_id # 0, "payer_user_id")
    \cup IfSent(d.payer_user_name # "", "payer_user_name")

\* C2 (as claimed): every field of an outgoing edit request other than id comes
\* from a field that was present in the input; an edit with no fields sends id alone.
C2_EditSendsOnlySupplied ==
    \A p \in Procs :
        (calls[p].op = "editSubscription" /\ Submitted(calls[p]))
        => /\ "id" \in calls[p].payload.keys
           /\ \A k \in calls[p].payload.keys \ {"id"} :
                 Origin(k) \cap Present(calls[p].d) # {}

\* C3 (as claimed): once a create-if-absent call of a mutation has reported
\* failure, no subscription write is sent and the mutation ends in an error.
C3_CreateFailureAborts ==
    \A p \in Procs :
        (IsSub(calls[p]) /\ calls[p].rejected # {})
        => /\ ~Submitted(calls[p])
           /\ Done(calls[p]) => calls[p].outcome = "thrown"

\* C6 (as claimed): with a name and an id both supplied for a category or a
\* payment method, the id sent is never the supplied one.
C6_NameBeatsId ==
    \A p \in Procs :
        LET c == calls[p] IN
        (IsSub(c) /\ Submitted(c))
        => /\ (c.d.category_name # "" /\ c.d.category_id # 0)
                 => c.payload.category_id # c.d.category_id
           /\ (c.d.payment_method_name # "" /\ c.d.payment_method_id # 0)
                 => c.payload.payment_method_id # c.d.payment_method_id

\* the subscription write of the call has been answered with an envelope and
\* no later round trip failed in transport
Answered(c) == Done(c) /\ c.resp.kind = "env" /\ c.err # "NetworkError"

\* C7 (as claimed): an answered edit is treated as a success exactly if the
\* status string is Success or the success flag is true.
C7_EitherConventionSucceeds ==
    \A p \in Procs :
        (calls[p].op = "editSubscription" /\ Answered(calls[p]))
        => (handleEditSubscription(calls[p]) = "success" <=> Accepted(calls[p].resp))

\* the envelope signals failure under a convention and success under none
Refused(e) ==
    e.kind = "env" /\ ~Accepted(e) /\ (e.status = "Error" \/ e.success = "false")

\* C8 (as claimed): createSubscription throws when the backend refused the
\* creation; it returns nothing for it.
C8_RejectedCreateThrows ==
    \A p \in Procs :
        (calls[p].op = "createSubscription" /\ Done(calls[p])
            /\ Refused(calls[p].resp))
        => calls[p].outcome = "thrown"

\* C10: nothing serializes ensureSession: every evaluation by a call that saw
\* no valid session sent a login of its own, whatever the other calls were
\* doing, so concurrent writes can log in more than once for one session lifetime.
C10_EveryInvalidCheckLogsIn ==
    \A p \in Procs : calls[p].chk = Count(calls[p].sent, "login")

\* two logins were sent while no session existed, and the second was sent
\* inside the lifetime of the session the first one stored
C10_Witness ==
    /\ Len(loginLog) = 2
    /\ loginLog[1].by # loginLog[2].by
    /\ ~loginLog[1].sawValid /\ ~loginLog[2].sawValid
    /\ loginLog[1].expiresAt # 0
    /\ loginLog[2].sentAt < loginLog[1].expiresAt

\* the calendar date, as a day number, of the instant the computation ran at,
\* in UTC and on the host's own calendar
UTCToday(s) == s.clock \div 24
LocalToday(s) == LocalDay(s.clock, s.tz)
DayOf(date) == DaysFromCivil(date[1], date[2], date[3])

\* the computation was given a start date in the past and no next payment,
\* and has finished
ScheduledFromPast(s) ==
    /\ s.pc = "done"
    /\ s.start_date # NoDate /\ s.next_payment = NoDate
    /\ s.cycle \in 1..4
    /\ DayOf(s.start_date) < UTCToday(s)
    /\ DayOf(s.start_date) < LocalToday(s)

\* C9 (as claimed): a next payment computed from a past start date is strictly
\* after today, on the UTC calendar or on the host's calendar at least.
C9_NextPaymentAfterToday ==
    ScheduledFromPast(sched)
    => \/ DayOf(sched.nextPayment) > UTCToday(sched)
       \/ DayOf(sched.nextPayment) > LocalToday(sched)

\* the call has just sent request r
JustSent(c, c2, r) ==
    Len(c2.sent) = Len(c.sent) + 1 /\ c2.sent[Len(c2.sent)] = r

\* C11 (as claimed, for one caller): a mutation that references a category by
\* name sends a create request for it only while the backend holds no category
\* of that name, so that sequential mutations create the name at most once.
C11_SequentialCreatesOnce ==
    [][\A p \in Procs :
          (IsSub(calls'[p]) /\ JustSent(calls[p], calls'[p], "add_category"))
          => FindByName(backend.categories, calls'[p].d.category_name) = 0]_vars

\* the payer reference of the input names nobody of the household
PayerUnmatched(c) ==
    c.d.payer_user_name # "" /\ FindByName(backend.household, c.d.payer_user_name) = 0

\* the input carries no payer reference at all
NoPayerGiven(c) == c.d.payer_user_name = "" /\ c.d.payer_user_id = 0

\* the case of C12: an unmatched payer name in either mutation, or no payer
\* reference in a create
PayerDefaults(c) ==
    IsSub(c) /\ (PayerUnmatched(c) \/ (IsCreate(c) /\ NoPayerGiven(c)))

NoCurrencyGiven(c) == IsCreate(c) /\ c.d.currency_id = 0 /\ c.d.currency_code = ""

\* C13: a create with neither currency_id nor currency_code sends the
\* main-currency id that the currencies read of that call reported, whichever
\* id the backend holds as main currency.
C13_MainCurrencyUsed ==
    \A p \in Procs :
        LET c == calls[p] IN
        (NoCurrencyGiven(c) /\ Submitted(c) /\ c.reported # 0)
        => /\ c.reported = backend.main_currency
           /\ "currency_id" \in c.payload.keys
           /\ c.payload.currency_id = c.reported

\* such a create was submitted with a main currency other than the fallback id
C13_Witness ==
    /\ NoCurrencyGiven(calls[1]) /\ Submitted(calls[1])
    /\ calls[1].reported # 0 /\ calls[1].reported # FALLBACK_CURRENCY_ID
    /\ calls[1].payload.currency_id = calls[1].reported

\* the id of the entity that existed before the mutation and that the name or
\* code of the input matches (0 = none), per entity kind
MatchedCategory(c) ==
    IF c.d.category_name = "" THEN 0
    ELSE FindByName(InitBackend.categories, c.d.category_name)
MatchedPaymentMethod(c) ==
    IF c.d.payment_method_name = "" THEN 0
    ELSE FindByName(InitBackend.payment_methods, c.d.payment_method_name)
MatchedCurrency(c) ==
    IF c.d.currency_code = "" THEN 0
    ELSE FindByCode(InitBackend.currencies, c.d.currency_code)

\* C14 (as claimed, for references given by name or code alone): when the name
\* or code matches an existing entity, no create request for that kind is sent
\* during the mutation and the id submitted is the existing entity's.
C14_MatchUsesExisting ==
    \A p \in Procs :
        LET c == calls[p] IN
        IsSub(c) =>
        /\ (MatchedCategory(c) # 0 /\ c.d.category_id = 0)
              => /\ Count(c.sent, "add_category") = 0
                 /\ Submitted(c) => c.payload.category_id = MatchedCategory(c)
        /\ (MatchedPaymentMethod(c) # 0 /\ c.d.payment_method_id = 0)
              => /\ Count(c.sent, "add_payment_method") = 0
                 /\ Submitted(c) => c.payload.payment_method_id = MatchedPaymentMethod(c)
        /\ (MatchedCurrency(c) # 0 /\ c.d.currency_id = 0)
              => /\ Count(c.sent, "add_currency") = 0
                 /\ Submitted(c) => c.payload.currency_id = MatchedCurrency(c)

\* the requests that read or extend the list of an entity kind
ListRequests(kind) ==
    CASE kind = "currency"       -> {"get_currencies", "add_currency"}
      [] kind = "category"       -> {"get_categories", "add_category"}
      [] kind = "payment_method" -> {"get_payment_methods", "add_payment_method"}
      [] OTHER                   -> {"get_household", "add_household_member"}

\* the call was given the id alone for the kind: the id, and "" for the name
\* or code; it sent no request about the kind's list and submits that id
IdSentAsIs(c, kind, id, name, key, sentId) ==
    (id # 0 /\ name = "")
    => /\ \A i \in 1..Len(c.sent) : c.sent[i] \notin ListRequests(kind)
       /\ Submitted(c) => (key \in c.payload.keys /\ sentId = id)

\* C15: a currency, category, payment method or payer referenced by numeric id
\* alone is submitted with that id, and the mutation neither fetches the list
\* of that entity kind nor sends a create request for it.
C15_IdOnlyNoLookup ==
    \A p \in Procs :
        LET c == calls[p] IN
        IsSub(c) =>
        /\ IdSentAsIs(c, "currency", c.d.currency_id, c.d.currency_code,
                      "currency_id", c.payload.currency_id)
        /\ IdSentAsIs(c, "category", c.d.category_id, c.d.category_name,
                      "category_id", c.payload.category_id)
        /\ IdSentAsIs(c, "payment_method", c.d.payment_method_id, c.d.payment_method_name,
                      "payment_method_id", c.payload.payment_method_id)
        /\ IdSentAsIs(c, "payer", c.d.payer_user_id, c.d.payer_user_name,
                      "payer_user_id", c.payload.payer_user_id)

\* a create given the four ids alone was submitted
C15_Witness ==
    /\ IsCreate(calls[1]) /\ Submitted(calls[1])
    /\ calls[1].d.currency_id = 9 /\ calls[1].d.category_id = 9
    /\ calls[1].d.payment_method_id = 9 /\ calls[1].d.payer_user_id = 9
    /\ calls[1].d.currency_code = "" /\ calls[1].d.category_name = ""
    /\ calls[1].d.payment_method_name = "" /\ calls[1].d.payer_user_name = ""
    /\ calls[1].payload.payer_user_id = 9

\* the ids of the subscriptions of the given name that the backend holds; the
\* backend numbers its records in the order it creates them
IdsNamed(list, name) == {list[i].id : i \in {k \in 1..Len(list) : list[k].name = name}}

\* C16 (as claimed): the record returned with the acknowledgement of an
\* accepted create is the most recently created subscription of the submitted
\* name, older subscriptions of that name notwithstanding.
C16_ReturnsNewestOfName ==
    \A p \in Procs :
        LET c == calls[p] IN
        (IsCreate(c) /\ Done(c) /\ c.outcome = "returned" /\ Accepted(c.resp)
            /\ c.subscription # 0)
        => \A id \in IdsNamed(backend.subscriptions, SUBSCRIPTION_NAME) :
              id <= c.subscription

\* the call has finished after its re-fetch was sent and answered
Refetched(c) ==
    /\ IsSub(c) /\ Done(c) /\ c.req = "refetch"
    /\ Len(c.sent) > 0 /\ c.sent[Len(c.sent)] = "get_subscriptions"
    /\ c.err # "NetworkError"

FailsFast(p, errors) ==
    (calls'[p] # calls[p] /\ ~credentials)
    => /\ Done(calls'[p]) /\ calls'[p].outcome = "thrown"
       /\ calls'[p].err \in errors
       /\ calls'[p].sent = <<>>
       /\ session' = session /\ apiKey' = apiKey
       /\ backend' = backend /\ loginLog' = loginLog

\* C18 (as claimed): every write on a client without username and password
\* fails with the configuration error before any network call.
C18_NoCredentialsFailsFast ==
    [][\A p \in Procs : FailsFast(p, {"ConfigurationError"})]_vars

\* C18 (amended): every write on a client without username and password fails
\* before any network call and leaves session and api key unchanged; the error
\* is the configuration error, except that deleteCategory(1) is refused by its
\* own guard first.
C18_NoCredentialsNoNetwork ==
    [][\A p \in Procs :
          FailsFast(p, IF calls'[p].op = "deleteCategory"
                          /\ calls'[p].id = DEFAULT_CATEGORY_ID
                       THEN {"Cannot delete the default category"}
                       ELSE {"ConfigurationError"})]_vars

\* on a client with an api key and no credentials, two writes have failed, the
\* second a createSubscription
C18_Witness ==
    /\ ~credentials /\ apiKey # 0 /\ started = 2
    /\ calls[1].op = "createSubscription" /\ calls[1].outcome = "thrown"
    /\ calls[1].err = "ConfigurationError" /\ calls[1].sent = <<>>
    /\ session = NoSession

\* the login exchange of call p has just been answered without a session token
LoginRefused(p) ==
    /\ calls[p].pc = "login" /\ calls'[p] # calls[p]
    /\ Len(loginLog') > 0 /\ loginLog'[LastBy(loginLog', p)].answer = "fail"

\* caller p has just started a write with credentials configured and no valid
\* session stored
StartsUnauthenticated(p) ==
    /\ started' = started + 1 /\ calls'[p] # calls[p]
    /\ credentials /\ ~SessionValid(session)
    /\ ~(calls'[p].op = "deleteCategory" /\ calls'[p].id = DEFAULT_CATEGORY_ID)

\* C19: a login exchange that returns no session token ends the write with the
\* authentication error, with the session field as it was and no further
\* request sent; and a write that starts while no valid session is stored,
\* as the next write therefore does, begins by sending a login.
C19_FailedLoginLeavesNoSession ==
    [][\A p \in Procs :
          /\ LoginRefused(p)
             => /\ Done(calls'[p]) /\ calls'[p].outcome = "thrown"
                /\ calls'[p].err = "AuthenticationError"
                /\ calls'[p].sent = calls[p].sent
                /\ session' = session
                /\ ~SessionValid(session')
          /\ StartsUnauthenticated(p) => calls'[p].sent = <<"login">>]_vars

\* the login of the first write returned no token and the next write has sent
\* a login of its own, the session field still unset
C19_Witness ==
    /\ Len(loginLog) = 2
    /\ loginLog[1].answer = "fail" /\ loginLog[2].answer = "none"
    /\ started = 2 /\ calls[1].pc = "login"
    /\ session = NoSession

\* the request the call is about to make is an API read
ForApiRead(c) == ReqKind(c.req) = "api"

\* C20: with one caller, while an api key is stored no API read triggers a
\* login or a key generation and the key is kept; a key generation is sent
\* only while no key is stored and none was generated before, for an API read,
\* with a valid session in place; and its successful answer stores the key
\* the backend generated.
C20_ApiKeyObtainedOnce ==
    [][\A p \in Procs :
          LET c == calls[p]  c2 == calls'[p] IN
          /\ apiKey # 0
             => /\ apiKey' = apiKey
                /\ ~JustSent(c, c2, "keygen")
                /\ JustSent(c, c2, "login") => ~ForApiRead(c2)
          /\ JustSent(c, c2, "keygen")
             => /\ apiKey = 0 /\ backend.keys = 0
                /\ ForApiRead(c2)
                /\ SessionValid(session')
          /\ (c.pc = "keygen" /\ c2 # c /\ c2.pc # "done")
             => /\ backend'.keys = backend.keys + 1
                /\ apiKey' = backend'.keys
                /\ JustSent(c, c2, ReadRequest(c2.op))]_vars

\* on a client without a configured key, the first read logged in and
\* generated a key, and the second read went out with nothing before it
C20_Witness ==
    /\ started = 2 /\ calls[1].op \in ReadOps
    /\ calls[1].sent = <<ReadRequest(calls[1].op)>>
    /\ backend.keys = 1 /\ apiKey = 1
    /\ Len(loginLog) = 1

\* on a client with a configured key, a read went out with nothing before it
C20_WitnessConfigured ==
    /\ backend.keys = 0 /\ apiKey # 0 /\ session = NoSession
    /\ calls[1].op \in ReadOps /\ Done(calls[1]) /\ calls[1].outcome = "returned"
    /\ calls[1].sent = <<ReadRequest(calls[1].op)>>

\* caller p has just started a write that reaches ensureSession, with
\* credentials configured
StartsWrite(p) ==
    /\ started' = started + 1 /\ calls'[p] # calls[p]
    /\ credentials
    /\ ~(calls'[p].op = "deleteCategory" /\ calls'[p].id = DEFAULT_CATEGORY_ID)

\* C21: the session field changes only when a login exchange is answered with
\* a session token, and the session stored then expires exactly one hour after
\* that instant and replaces the one before; a write that starts sends a
\* login first exactly if no session is stored or now >= expires-at, so the
\* stored session counts as valid exactly while now < expires-at.
C21_SessionLifetime ==
    [][/\ session' # session
          => /\ \E p \in Procs : calls[p].pc = "login" /\ calls'[p] # calls[p]
             /\ session'.set
             /\ session'.expiresAt = now' + SESSION_TTL
             /\ session'.cookie # session.cookie
       /\ \A p \in Procs :
             StartsWrite(p)
             => (calls'[p].sent = <<"login">>
                    <=> ~(session.set /\ now < session.expiresAt))
       /\ \A p \in Procs :
             (StartsWrite(p) /\ calls'[p].sent # <<"login">>)
             => \A i \in 1..Len(calls'[p].sent) : calls'[p].sent[i] # "login"]_vars

\* a write that started at the very instant the stored session expired sent a
\* login, and its answer replaced the session by one expiring an hour later
C21_Witness ==
    /\ Len(loginLog) = 2
    /\ loginLog[1].expiresAt = SESSION_TTL
    /\ loginLog[2].sentAt = loginLog[1].expiresAt
    /\ loginLog[2].answer = "ok"
    /\ session.set /\ session.cookie = 2
    /\ session.expiresAt = loginLog[2].sentAt + SESSION_TTL

\* a write that started one millisecond before the expiry went out under the
\* stored session, without a login
C21_WitnessLastInstant ==
    /\ Len(loginLog) = 1 /\ started = 2
    /\ session.set /\ now = session.expiresAt - 1
    /\ Len(calls[1].sent) > 0 /\ Count(calls[1].sent, "login") = 0

\* the id the request carries under the key refers to an entity of the list
RefersTo(c, key, id, list) == key \in c.payload.keys => id \in Ids(list)

\* C22 (as claimed): every currency, category, payment-method and payer id of
\* a submitted create or edit request is the id of an entity the backend
\* holds, ids supplied directly by the caller included.
C22_SubmittedIdsExist ==
    \A p \in Procs :
        LET c == calls[p] IN
        (IsSub(c) /\ Submitted(c))
        => /\ RefersTo(c, "currency_id", c.payload.currency_id, backend.currencies)
           /\ RefersTo(c, "category_id", c.payload.category_id, backend.categories)
           /\ RefersTo(c, "payment_method_id", c.payload.payment_method_id,
                       backend.payment_methods)
           /\ RefersTo(c, "payer_user_id", c.payload.payer_user_id, backend.household)

\* the place of a request in the documented order of a mutation: currency,
\* category, payment method, payer, submit, re-fetch (a look-up before the
\* create it may lead to)
Rank(endpoint) ==
    CASE endpoint = "login"               -> 0
      [] endpoint = "get_currencies"      -> 1
      [] endpoint = "add_currency"        -> 2
      [] endpoint = "get_categories"      -> 3
      [] endpoint = "add_category"        -> 4
      [] endpoint = "get_payment_methods" -> 5
      [] endpoint = "add_payment_method"  -> 6
      [] endpoint = "get_household"       -> 7
      [] endpoint \in {"add_subscription", "edit_subscription"} -> 9
      [] OTHER                            -> 10  \* get_subscriptions

\* the requests of a mutation other than the api-key generations, which
\* precede whichever list read comes first
Ordered(sent) ==
    LET data == SelectSeq(sent, LAMBDA e : e # "keygen") IN
    \A i, j \in 1..Len(data) :
        i < j => \/ Rank(data[i]) < Rank(data[j])
                 \/ data[i] = "get_household" /\ data[j] = "get_household"

RequestFailed(c, c2) ==
    /\ Running(c) /\ c2 # c
    /\ faults' = faults + 1
    /\ ~(c.pc = "await" /\ c.req \in c2.created)
    /\ (c.pc = "await" /\ c.req \in {"add_subscription", "edit_subscription"})
          => (c2.resp.kind # "env" \/ Refused(c2.resp))

\* C24 (as claimed): a failed request of a mutation ends the call with an
\* error and nothing is sent after it; no login, entity create or subscription
\* write is sent twice by one call.
C24_NoRetry ==
    [][\A p \in Procs :
          LET c == calls[p]  c2 == calls'[p] IN
          IsSub(c2) =>
          /\ RequestFailed(c, c2)
                => Done(c2) /\ c2.outcome = "thrown" /\ c2.sent = c.sent
          /\ \A r \in {"login", "keygen", "add_currency", "add_category",
                        "add_payment_method", "add_subscription", "edit_subscription"} :
                Count(c2.sent, r) <= 1]_vars

\* the (cycle, frequency) pair documented for an alias of the dictionary
Documented(alias) ==
    CASE alias \in {"daily", "d", "day"}                    -> <<1, 1>>
      [] alias \in {"weekly", "w", "week"}                  -> <<2, 1>>
      [] alias \in {"biweekly", "bi-weekly", "fortnightly"} -> <<2, 2>>
      [] alias \in {"monthly", "m", "month"}                -> <<3, 1>>
      [] alias \in {"quarterly", "q", "quarter"}            -> <<3, 3>>
      [] alias \in {"semiannually", "semi-annually", "halfyearly", "half-yearly"}
                                                            -> <<3, 6>>
      [] OTHER                                              -> <<4, 1>>

\* the parser was given a spelling of a dictionary alias
MeantAlias(s) == s.pc = "parsed" /\ s.meant \in DOMAIN periodMap

\* C25 (as claimed): without an explicit multiplier, every spelling of a
\* dictionary alias (any letter case, surrounding blanks) gives the documented
\* (cycle, frequency) pair, and every unrecognized period gives monthly with
\* frequency 1 together with the warning.
C25_AliasesAndFallback ==
    /\ (MeantAlias(sched) /\ ~sched.given)
          => /\ <<sched.cycle, sched.frequency>> = Documented(sched.meant)
             /\ ~sched.warning
    /\ (sched.pc = "parsed" /\ sched.meant = "unrecognized" /\ ~sched.given)
          => /\ <<sched.cycle, sched.frequency>> = <<3, 1>>
             /\ sched.warning

DatesReady(s) == s.pc = "done"

C27_WitnessOnlyNext ==
    /\ DatesReady(sched)
    /\ sched.start_date = NoDate /\ sched.next_payment = <<2024, 4, 1>>
    /\ sched.startDate = <<2024, 4, 1>>

\* C28: createSubscription always sends auto_renew: 1 when the flag is omitted
\* or true, 0 when it is false; editSubscription sends auto_renew exactly when
\* the flag was supplied, with the same encoding, so that an explicit false
\* goes out as 0 in both.
C28_AutoRenewFaithful ==
    \A p \in Procs :
        LET c == calls[p] IN
        (IsSub(c) /\ Submitted(c))
        => /\ IsCreate(c)
                 => /\ "auto_renew" \in c.payload.keys
                    /\ c.payload.auto_renew = IF c.d.auto_renew = "false" THEN "0" ELSE "1"
           /\ ~IsCreate(c)
                 => /\ "auto_renew" \in c.payload.keys <=> c.d.auto_renew # "undefined"
                    /\ c.d.auto_renew = "true" => c.payload.auto_renew = "1"
                    /\ c.d.auto_renew = "false" => c.payload.auto_renew = "0"

\* a create with auto_renew false was submitted with auto_renew=0
C28_Witness ==
    /\ IsCreate(calls[1]) /\ Submitted(calls[1])
    /\ calls[1].d.auto_renew = "false" /\ calls[1].payload.auto_renew = "0"

\* a create without the flag was submitted with auto_renew=1
C28_WitnessOmitted ==
    /\ IsCreate(calls[1]) /\ Submitted(calls[1])
    /\ calls[1].d.auto_renew = "undefined" /\ calls[1].payload.auto_renew = "1"

\* an edit with auto_renew false was submitted with auto_renew=0
C28_WitnessEdit ==
    /\ calls[1].op = "editSubscription" /\ Submitted(calls[1])
    /\ calls[1].d.auto_renew = "false" /\ calls[1].payload.auto_renew = "0"

\* C29: construction fails exactly when the api key is missing and the
\* username or the password is missing, and a failed construction leaves no
\* client to call; a constructed client holds an api key or both username and
\* password, so that none of its API reads fails for want of credentials.
C29_ConstructorRequiresCredentials ==
    /\ config.state = "thrown"
          <=> (config.state # "new" /\ config.apiKey = 0
                 /\ (config.username = "" \/ config.password = ""))
    /\ config.state = "thrown" => started = 0
    /\ config.state = "constructed"
          => /\ config.apiKey # 0 \/ (config.username # "" /\ config.password # "")
             /\ credentials <=> (config.username # "" /\ config.password # "")
             /\ apiKey # 0 \/ credentials
             /\ \A p \in Procs :
                   calls[p].op \in ReadOps => calls[p].err # "ConfigurationError"

\* construction with a username and no password or api key was refused
C29_Witness ==
    /\ config.state = "thrown"
    /\ config.apiKey = 0 /\ config.username = "user" /\ config.password = ""

\* a client constructed with an api key and a username alone has answered a read
C29_WitnessKeyOnly ==
    /\ config.state = "constructed"
    /\ config.apiKey # 0 /\ config.username = "user" /\ config.password = ""
    /\ calls[1].op \in ReadOps /\ calls[1].outcome = "returned"

\* read i of getMasterData failed: it was rejected (transport error, login or
\* key generation failure) or it reported success=false
ReadFailed(m, i) ==
    /\ Done(m.reads[i])
    /\ m.reads[i].outcome = "thrown" \/ m.reads[i].resp.kind # "ok"

\* C30: getMasterData returns only when all four reads reported success, and
\* then with all four parts filled; when a read was rejected, and when all
\* four were answered and one reported success=false, it has failed; and every
\* failure carries the prefix 'Failed to fetch master data'.
C30_MasterDataAllOrNothing ==
    /\ master.outcome = "returned"
          => /\ \A i \in Readers : ~ReadFailed(master, i)
             /\ master.result = {"categories", "currencies", "payment_methods",
                                 "household"}
    /\ master.outcome = "thrown"
          => /\ master.err = "Failed to fetch master data"
             /\ master.result = {}
             /\ \E i \in Readers : ReadFailed(master, i)
    /\ master.pc = "waiting"
          => /\ \A i \in Readers : master.reads[i].outcome # "thrown"
             /\ \E i \in Readers : ~Done(master.reads[i])

\* the household read reported success=false after the three other reads
\* had succeeded, and getMasterData failed
C30_Witness ==
    /\ master.outcome = "thrown"
    /\ \A i \in Readers : master.reads[i].outcome = "returned"
    /\ master.reads[4].resp.kind = "fail"
    /\ \A i \in 1..3 : master.reads[i].resp.kind = "ok"

\* a read was rejected in transport and getMasterData failed while another
\* read was still in flight
C30_WitnessTransport ==
    /\ master.outcome = "thrown"
    /\ \E i \in Readers : master.reads[i].err = "NetworkError"
    /\ \E i \in Readers : Running(master.reads[i])

\* all four reads succeeded and getMasterData returned
C30_WitnessReturned ==
    /\ master.outcome = "returned" /\ Cardinality(master.result) = 4

\* a handler has just been called for the default category
HandlesDefault(p) ==
    /\ started' = started + 1 /\ calls'[p] # calls[p]
    /\ calls'[p].tool \in {"handleUpdateCategory", "handleDeleteCategory"}
    /\ calls'[p].id = DEFAULT_CATEGORY_ID

\* C31: for id 1, handleUpdateCategory and handleDeleteCategory end at their
\* own guard: the client's method is not invoked, nothing is sent, session,
\* api key, backend and login history stay as they were, and the handler
\* returns an error result carrying the guard's message.
C31_HandlersGuardDefault ==
    [][\A p \in Procs :
          HandlesDefault(p)
          => /\ Done(calls'[p]) /\ calls'[p].outcome = "guarded"
             /\ calls'[p].sent = <<>>
             /\ session' = session /\ apiKey' = apiKey
             /\ backend' = backend /\ loginLog' = loginLog
             /\ ToolResult(calls'[p]).kind = "error"
             /\ ToolResult(calls'[p]).details
                   \in {"Cannot modify the default category (ID: 1)",
                        "Cannot delete the default category (ID: 1)"}]_vars

\* handleUpdateCategory was called for id 1 with credentials configured and
\* ended without a request
C31_Witness ==
    /\ calls[1].tool = "handleUpdateCategory" /\ calls[1].id = DEFAULT_CATEGORY_ID
    /\ credentials /\ Done(calls[1]) /\ calls[1].sent = <<>>
    /\ ToolResult(calls[1]).kind = "error"

\* the client's method did not succeed: it threw, or returned success: false
ClientFailed(c) ==
    \/ c.outcome \in {"thrown", "thrown_value"}
    \/ c.outcome = "returned" /\ c.resp.kind = "fail"

\* C32: whatever the client does (a reported failure, a thrown Error, a
\* thrown value that is not an Error), a finished category handler has
\* returned a result, never thrown, and for a failed client call the result
\* is the error JSON with error, details and timestamp; a thrown non-Error
\* value is reported as 'Unknown error occurred'.
C32_HandlersNeverThrow ==
    \A p \in Procs :
        LET c == calls[p] IN
        (c.tool # "" /\ Done(c))
        => /\ ToolResult(c).kind \in {"success", "error"}
           /\ ClientFailed(c)
              => /\ ToolResult(c).kind = "error"
                 /\ ToolResult(c).error = ToolError(c.tool)
                 /\ ToolResult(c).details # ""
                 /\ ToolResult(c).timestamp
           /\ c.outcome = "thrown_value"
              => ToolResult(c).details = "Unknown error occurred"
           /\ c.outcome = "thrown" => ToolResult(c).details = c.err

\* a handler finished after its client call was rejected by the transport
C32_Witness ==
    /\ calls[1].tool = "handleAddCategory" /\ Done(calls[1])
    /\ calls[1].outcome = "thrown" /\ calls[1].err = "NetworkError"
    /\ Len(calls[1].sent) > 0

\* a handler finished after the backend reported a failure
C32_WitnessReported ==
    /\ calls[1].tool = "handleUpdateCategory" /\ Done(calls[1])
    /\ calls[1].outcome = "returned" /\ calls[1].resp.kind = "fail"

\* a handler finished after the client rejected with a value that is no Error
C32_WitnessNonError ==
    /\ calls[1].tool = "handleDeleteCategory" /\ Done(calls[1])
    /\ calls[1].outcome = "thrown_value"

\* C33: the next-payment computation terminates: once the date loop has been
\* entered, for whatever cycle and frequency parseBillingPeriod returned
\* (also for '0 days' and for a zero or negative multiplier) and whatever
\* past start date, the computation eventually yields its dates.
C33_DateLoopTerminates == (sched.pc = "loop") ~> (sched.pc = "done")

\* the loop ran MaxSteps times on a frequency of 0 and has not moved
C33_Stuck ==
    /\ sched.pc = "loop" /\ sched.steps = MaxSteps
    /\ sched.frequency = 0 /\ sched.next = ParseDate(sched.start_date)
    /\ sched.next <= sched.today

\* an iteration of the loop that leaves next where it was, or moves it back,
\* with today fixed: the loop condition is evaluated again on a date that is
\* no later
C33_IterationWithoutProgress ==
    /\ sched.pc = "loop" /\ sched.steps > 0 /\ sched.next <= sched.today
    /\ AdvanceCycle(sched.next, sched.cycle, sched.frequency, sched.tz) <= sched.next

\* every loop over a frequency of at least 1 and a cycle of 1..4 has ended
\* well before MaxSteps iterations
C33_ForwardLoopsEnd ==
    (sched.pc = "loop" /\ sched.frequency >= 1 /\ sched.cycle \in 1..4)
    => sched.steps < MaxSteps - 10

\* C34: whatever the period (absent, a number, a string) and whatever the
\* multiplier, parseBillingPeriod returns a cycle in 1..4 and a frequency that
\* is an integer of at least 1.
C34_ParsedInRange ==
    sched.pc = "parsed" => (sched.cycle \in 1..4 /\ sched.frequency >= 1)

\* the pairs outside the range that the parser returns: a negative multiplier
\* kept, the 0 of '0 days', the missing cycle of an inherited key
C34_NegativeKept ==
    /\ sched.pc = "parsed" /\ sched.period = StrPeriod("weekly")
    /\ sched.billing_frequency = -1 /\ sched.cycle = 2 /\ sched.frequency = -1

C34_ZeroQuantity ==
    /\ sched.pc = "parsed" /\ sched.period = StrPeriod("0 days")
    /\ sched.cycle = 1 /\ sched.frequency = 0

\* with a period that is absent, a dictionary alias, a quantity of at least 1
\* or unparsable text, and a multiplier that is absent or at least 0, the
\* result is in range
C34_InRangeOtherwise ==
    (/\ sched.pc = "parsed" /\ sched.billing_frequency >= 0
     /\ sched.period # StrPeriod("0 days")
     /\ ~(sched.period.kind = "str"
           /\ Trim(ToLowerCase(sched.period.s)) \in {"constructor", "__proto__"}))
    => (sched.cycle \in 1..4 /\ sched.frequency >= 1)

\* the periods of the form '<N> <unit>[s]' in use, with the unit's cycle and N
Quantity(period) ==
    CASE period = StrPeriod("2 weeks")  -> <<2, 2>>
      [] period = StrPeriod("3 MONTHS") -> <<3, 3>>
      [] period = StrPeriod("10day")    -> <<1, 10>>
      [] period = StrPeriod("1 year")   -> <<4, 1>>
      [] period = StrPeriod("0 days")   -> <<1, 0>>
      [] OTHER                          -> <<>>

\* C39: for a period '<N> <unit>[s]' parseBillingPeriod returns the unit's
\* cycle with frequency N, without a warning, whether or not a multiplier was
\* supplied and whatever its value: the multiplier is ignored for this form.
C39_QuantityIgnoresMultiplier ==
    (sched.pc = "parsed" /\ Quantity(sched.period) # <<>>)
    => /\ sched.cycle = Quantity(sched.period)[1]
       /\ sched.frequency = Quantity(sched.period)[2]
       /\ ~sched.warning

\* '3 MONTHS' with a supplied multiplier of 2 was parsed as (monthly, 3)
C39_Witness ==
    /\ sched.pc = "parsed" /\ sched.period = StrPeriod("3 MONTHS")
    /\ sched.given /\ sched.billing_frequency = 2
    /\ sched.cycle = 3 /\ sched.frequency = 3

\* requests of one kind sent by the four reads of the getMasterData call
SentByReads(m, r) ==
    Count(m.reads[1].sent, r) + Count(m.reads[2].sent, r)
      + Count(m.reads[3].sent, r) + Count(m.reads[4].sent, r)

\* C35: one getMasterData call on a client that has username and password
\* and no api key performs at most one login exchange and at most one api-key
\* generation, and the reads it has sent all carry the same api key.
C35_OneLoginOneKey ==
    (master.pc # "idle" /\ config.apiKey = 0)
    => /\ SentByReads(master, "login") <= 1
       /\ SentByReads(master, "keygen") <= 1
       /\ \A i, j \in Readers :
             (master.carried[i] # 0 /\ master.carried[j] # 0)
             => master.carried[i] = master.carried[j]

\* the four reads have each logged in and generated a key of their own, and
\* were sent with four different keys; the backend has replaced its key 4 times
C35_FourKeys ==
    /\ master.pc # "idle" /\ config.apiKey = 0
    /\ SentByReads(master, "login") = 4 /\ SentByReads(master, "keygen") = 4
    /\ Cardinality({master.carried[i] : i \in Readers}) = 4
    /\ \A i \in Readers : master.carried[i] # 0
    /\ backend.keys = 4

\* on a client constructed with an api key the four reads are sent at once
\* with that key, without login or key generation
C35_ConfiguredKeyShared ==
    (master.pc # "idle" /\ config.apiKey # 0)
    => /\ SentByReads(master, "login") = 0 /\ SentByReads(master, "keygen") = 0
       /\ \A i \in Readers : master.carried[i] = config.apiKey

\* the call of p has just sent its add.php or edit.php request
SendsWrite(p) ==
    \/ JustSent(calls[p], calls'[p], "add_subscription")
    \/ JustSent(calls[p], calls'[p], "edit_subscription")

\* C36: every subscription write request goes out under a session that is
\* stored and unexpired at the instant of sending, also when the session was
\* close to its expiry when the mutation started and the lookups took time.
C36_WriteUnderLiveSession ==
    [][\A p \in Procs :
          (calls'[p] # calls[p] /\ SendsWrite(p))
          => (session'.set /\ now' < session'.expiresAt)]_vars

\* a write request that goes out in the step in which the mutation starts, or
\* right after the mutation's own login, goes out under a live session
C36_LiveWithoutLookups ==
    [][\A p \in Procs :
          (/\ calls'[p] # calls[p] /\ SendsWrite(p)
           /\ \/ started' = started + 1
              \/ calls[p].pc = "login")
          => (session'.set /\ now' < session'.expiresAt)]_vars

\* the submitted request of c carries an id for each kind of entity that the
\* input names
NamedCarried(c) ==
    /\ Given(c.d.currency_code) => "currency_id" \in c.payload.keys
    /\ Given(c.d.category_name) => "category_id" \in c.payload.keys
    /\ Given(c.d.payment_method_name) => "payment_method_id" \in c.payload.keys

\* C37: whenever createSubscription or editSubscription has submitted its
\* request for an input that names a category, a payment method or a currency
\* code, the request carries an id for that kind: no request is submitted with
\* the named reference dropped.
C37_NamedReferenceCarried ==
    \A p \in Procs :
        (IsSub(calls[p]) /\ Submitted(calls[p])) => NamedCarried(calls[p])

\* an edit naming a category that the backend refused to create was submitted
\* without category_id
C37_Dropped ==
    /\ calls[1].op = "editSubscription" /\ Submitted(calls[1])
    /\ calls[1].d.category_name = "Books"
    /\ Count(calls[1].sent, "add_category") = 1
    /\ "category_id" \notin calls[1].payload.keys

\* while no request of the mutation was answered with a failure or without
\* the id, the named references are carried
C37_CarriedWithoutFaults ==
    \A p \in Procs :
        (IsSub(calls[p]) /\ Submitted(calls[p]) /\ faults = 0) => NamedCarried(calls[p])

\* the mutation ended in failure: it threw, or its write was refused
MutationFailed(c) == Done(c) /\ (c.outcome = "thrown" \/ Refused(c.resp))

\* the entity that a find-or-create step r of c created is in the backend
Remains(c, r) ==
    LET list == backend[TargetList([c EXCEPT !.req = r])]
        name == NewName([c EXCEPT !.req = r])
    IN  \E i \in 1..Len(list) : list[i].name = name

\* C38: a failed mutation is not rolled back: no subscription mutation ever
\* sends a delete request, and when the mutation has failed every currency,
\* category and payment method that one of its find-or-create steps created
\* is still in the backend.
C38_NoRollback ==
    \A p \in Procs :
        LET c == calls[p] IN
        IsSub(c)
        => /\ \A i \in 1..Len(c.sent) :
                 c.sent[i] \notin {"delete_category", "delete_currency",
                                   "delete_payment_method", "delete_subscription"}
           /\ MutationFailed(c) => \A r \in c.created : Remains(c, r)

\* createSubscription created the category 'Books', failed at the payment
\* method, and the category is in the backend
C38_Witness ==
    /\ calls[1].op = "createSubscription" /\ Done(calls[1])
    /\ calls[1].outcome = "thrown" /\ calls[1].err = "Failed to create payment method"
    /\ "add_category" \in calls[1].created
    /\ \E i \in 1..Len(backend.categories) : backend.categories[i].name = "Books"
    /\ Len(backend.categories) = Len(InitBackend.categories) + 1

\* the backend refused the write after the mutation had created a currency,
\* which is still there
C38_WitnessRefused ==
    /\ Done(calls[1]) /\ Refused(calls[1].resp)
    /\ "add_currency" \in calls[1].created
    /\ Len(backend.currencies) = Len(InitBackend.currencies) + 1

====
